---- MODULE Spec2Model ----
(***************************************************************************)
(* Battle-card batch pipeline of dqe-map: BattleCardProcessor (row task,   *)
(* worker pool, order-restoring collection) and BattleCardLLM (two-pass    *)
(* analysis, fallback analysis, lock-guarded token totals).                *)
(*                                                                         *)
(* Encoding of Python values:                                              *)
(*   None        <<>>           an optional value x that is present <<x>>  *)
(*   dict        a function whose DOMAIN is the set of keys present        *)
(*   float 0.85  the integer 85 (hundredths) for confidence scores         *)
(*   exception   the string str(e)                                         *)
(*   str + str   \o on strings                                             *)
(***************************************************************************)
EXTENDS Integers, Sequences, FiniteSets, TLC

\* ---------------------------------------------------------------- bounds
MaxRows == 2
MaxWorkers == 2
MaxTok == 1
MaxTokenRows == 2
MaxAnalyzerRows == 1
MaxGeocoderRows == 1
MaxCards == 22

\* ------------------------------------------------------- Python helpers
None == <<>>
Some(x) == <<x>>

\* dict.get(key, default)
Get(d, key, default) == IF key \in DOMAIN d THEN d[key] ELSE default

\* ---------------------------------------------------------- RowExtractor
EYKeys ==
  {"Name", "Address", "City", "State", "Zipcode", "Bandwidth", "Prediction",
   "Direct or Wholesale Prediction", "DQE ICP Focus",
   "Provider And Connectivity", "Website", "Phone", "LinkedIn Url",
   "No Of Employees", "Est Telco Spend", "Network Build Status",
   "Building Connection Status", "Building Category", "Access Medium",
   "Supplier Name", "Global Location ID"}

\* the CSV column an EY key is read from
EYColumn(k) == IF k = "Bandwidth" THEN "Bandwitdh ( DIA or Broadband)" ELSE k

_extract_ey_data(row) == [k \in EYKeys |-> Get(row, EYColumn(k), "")]

CBKeys ==
  {"API_EntityName", "API_Website", "API_Phone", "API_LinkedIn",
   "API_NoOfEmployees", "API_MonthlyNetworkSpend", "API_Revenue",
   "API_Industry", "API_FoundedYear", "API_LocationType",
   "API_LocationCount", "DQE_Site_Distance", "DQE_Connection_Status",
   "DQE_Access_Medium", "DQE_Network_Status", "SITE_All_Competitors"}

\* ConnectBase fields defaulting to the empty string
_extract_connectbase_data_EmptyDefault(row) ==
  [k \in CBKeys |-> Get(row, k, "")]

_extract_connectbase_data(row) == [k \in CBKeys |-> Get(row, k, "N/A")]

\* A string is split on "," and stripped character by character: the value of
\* the API_Additional_Tenants column is a sequence of one-character strings.
NA == <<"N", "/", "A">>

RECURSIVE LStrip(_)
LStrip(s) == IF s # <<>> /\ Head(s) = " " THEN LStrip(Tail(s)) ELSE s

RECURSIVE RStrip(_)
RStrip(s) ==
  IF s # <<>> /\ s[Len(s)] = " " THEN RStrip(SubSeq(s, 1, Len(s) - 1)) ELSE s

\* str.strip()
Strip(s) == RStrip(LStrip(s))

\* str.split(","): always at least one piece
RECURSIVE SplitComma(_, _)
SplitComma(s, cur) ==
  IF s = <<>> THEN <<cur>>
  ELSE IF Head(s) = "," THEN <<cur>> \o SplitComma(Tail(s), <<>>)
  ELSE SplitComma(Tail(s), Append(cur, Head(s)))

_extract_additional_tenants(row) ==
  LET additional_tenants_str == Get(row, "API_Additional_Tenants", NA)
      parts == SplitComma(additional_tenants_str, <<>>)
  IN IF additional_tenants_str # NA /\ additional_tenants_str # <<>>
     THEN [i \in 1..Len(parts) |-> Strip(parts[i])]
     ELSE <<>>

\* -------------------------------------------------------------- Geocoder
\* f"{address}, {city}, {state} {zipcode}", kept symbolic; stripped records
\* whether .strip() was applied to it
FullAddress(address, city, state, zipcode, stripped) ==
  [address |-> address, city |-> city, state |-> state, zipcode |-> zipcode,
   stripped |-> stripped]

\* a geocoder that reads the last result of the list
_geocode_address_LastResult(address, city, state, zipcode, reply) ==
  LET full_address == FullAddress(address, city, state, zipcode, TRUE)
      failed(msg) ==
        [latitude |-> None, longitude |-> None, geocode_quality |-> None,
         formatted_address |-> FullAddress(address, city, state, zipcode, FALSE),
         geocode_status |-> "error", geocode_error |-> msg]
  IN IF "exc" \in DOMAIN reply THEN failed(reply.exc)
     ELSE IF reply.status_code # 200
       THEN [latitude |-> None, longitude |-> None, geocode_quality |-> None,
             formatted_address |-> full_address,
             geocode_status |-> "error_" \o ToString(reply.status_code)]
     ELSE IF "json" \notin DOMAIN reply
       THEN failed("Expecting value: line 1 column 1 (char 0)")
     ELSE LET data == reply.json IN
       IF Get(data, "results", <<>>) # <<>>
       THEN LET result == data.results[Len(data.results)]
                location == Get(result, "location", <<>>)
            IN [latitude |-> Get(location, "latitude", None),
                longitude |-> Get(location, "longitude", None),
                formatted_address |->
                  Get(result, "formattedAddress", full_address),
                geocode_status |-> "success",
                geocode_quality |->
                  Some([granularity |-> Get(result, "granularity", "UNKNOWN"),
                        place_id |-> Get(result, "placeId", "")])]
       ELSE [latitude |-> None, longitude |-> None, geocode_quality |-> None,
             formatted_address |-> full_address,
             geocode_status |-> "no_results"]

\* a geocoder whose except clause reports an empty result list
_geocode_address_Swallow(address, city, state, zipcode, reply) ==
  LET full_address == FullAddress(address, city, state, zipcode, TRUE)
      failed(msg) ==
        [latitude |-> None, longitude |-> None, geocode_quality |-> None,
         formatted_address |-> FullAddress(address, city, state, zipcode, FALSE),
         geocode_status |-> "no_results"]
  IN IF "exc" \in DOMAIN reply THEN failed(reply.exc)
     ELSE IF reply.status_code # 200
       THEN [latitude |-> None, longitude |-> None, geocode_quality |-> None,
             formatted_address |-> full_address,
             geocode_status |-> "error_" \o ToString(reply.status_code)]
     ELSE IF "json" \notin DOMAIN reply
       THEN failed("Expecting value: line 1 column 1 (char 0)")
     ELSE LET data == reply.json IN
       IF Get(data, "results", <<>>) # <<>>
       THEN LET result == data.results[1]
                location == Get(result, "location", <<>>)
            IN [latitude |-> Get(location, "latitude", None),
                longitude |-> Get(location, "longitude", None),
                formatted_address |->
                  Get(result, "formattedAddress", full_address),
                geocode_status |-> "success",
                geocode_quality |->
                  Some([granularity |-> Get(result, "granularity", "UNKNOWN"),
                        place_id |-> Get(result, "placeId", "")])]
       ELSE [latitude |-> None, longitude |-> None, geocode_quality |-> None,
             formatted_address |-> full_address,
             geocode_status |-> "no_results"]

\* reply: what requests.get / response.json() do for this call
\*   [exc |-> msg]                        requests.get raised
\*   [status_code |-> c]                  a response whose body does not decode
\*   [status_code |-> c, json |-> data]   a response with a JSON body
_geocode_address(address, city, state, zipcode, reply) ==
  LET full_address == FullAddress(address, city, state, zipcode, TRUE)
      failed(msg) ==
        [latitude |-> None, longitude |-> None, geocode_quality |-> None,
         formatted_address |-> FullAddress(address, city, state, zipcode, FALSE),
         geocode_status |-> "error", geocode_error |-> msg]
  IN IF "exc" \in DOMAIN reply THEN failed(reply.exc)
     ELSE IF reply.status_code # 200
       THEN [latitude |-> None, longitude |-> None, geocode_quality |-> None,
             formatted_address |-> full_address,
             geocode_status |-> "error_" \o ToString(reply.status_code)]
     ELSE IF "json" \notin DOMAIN reply
       THEN failed("Expecting value: line 1 column 1 (char 0)")
     ELSE LET data == reply.json IN
       IF Get(data, "results", <<>>) # <<>>
       THEN LET result == data.results[1]
                location == Get(result, "location", <<>>)
            IN [latitude |-> Get(location, "latitude", None),
                longitude |-> Get(location, "longitude", None),
                formatted_address |->
                  Get(result, "formattedAddress", full_address),
                geocode_status |-> "success",
                geocode_quality |->
                  Some([granularity |-> Get(result, "granularity", "UNKNOWN"),
                        place_id |-> Get(result, "placeId", "")])]
       ELSE [latitude |-> None, longitude |-> None, geocode_quality |-> None,
             formatted_address |-> full_address,
             geocode_status |-> "no_results"]

\* ------------------------------------------------------ ResearchAnalyzer
\* a number of an analysis document is Num(n); a JSON null is None
Num(n) == <<n>>

_create_fallback_analysis(error) ==
  [overall_score |-> Num(0),
   data_confidence |->
     [confidence_score |-> Num(0),
      business_status_points |-> Num(0),
      employee_validation_points |-> Num(0),
      source_quality_points |-> Num(0),
      business_status |-> "unknown",
      business_status_evidence |-> "Error during validation",
      validated_employee_count |-> None,
      employee_count_confidence |-> "none",
      employee_count_basis |-> "validation failed",
      employee_count_sources |-> <<>>,
      employee_comparison |-> "N/A",
      location_type |-> "unknown",
      data_quality_notes |-> "Error: " \o error],
   icp_fit |->
     [icp_fit_score |-> Num(0),
      network_economics_points |-> Num(0),
      business_scale_need_points |-> Num(0),
      network_analysis |->
        [dqe_distance_feet |-> "ERROR",
         network_category |-> "unknown",
         build_cost_assessment |-> "unknown",
         network_advantage |-> "Unable to assess"],
      business_assessment |->
        [business_criticality |-> "unknown",
         criticality_reasoning |-> "Unable to assess",
         infrastructure_needs |-> <<>>,
         bandwidth_requirements |-> "unknown",
         estimated_monthly_spend |-> None],
      competitive_context |->
        [competitors_at_site |-> "N/A",
         competitive_position |-> "Unable to assess"],
      icp_fit_summary |-> "Unable to assess due to validation failure"],
   sales_intelligence |->
     [priority_level |-> "disqualify",
      priority_reasoning |-> "Data validation failed",
      key_selling_points |-> <<>>,
      likely_pain_points |-> <<>>,
      competitive_angles |-> <<>>,
      data_gaps_to_resolve |-> <<"Complete data validation required">>,
      recommended_approach |-> "Unable to provide recommendation",
      recommended_services |-> <<>>,
      next_best_actions |-> <<"Retry data enrichment">>]]

\* The text of a generation response is a sequence of segments:
\*   [kind |-> "ws"]  whitespace      [kind |-> "fence_json"]  ```json
\*   [kind |-> "fence"]  ```          [kind |-> "prose"]  text that is no JSON
\*   [kind |-> "json", type |-> "object" | "array", value |-> v]  a JSON value
IsWs(seg) == seg.kind = "ws"

RECURSIVE LStripText(_)
LStripText(t) == IF t # <<>> /\ IsWs(Head(t)) THEN LStripText(Tail(t)) ELSE t

RECURSIVE RStripText(_)
RStripText(t) ==
  IF t # <<>> /\ IsWs(t[Len(t)])
  THEN RStripText(SubSeq(t, 1, Len(t) - 1)) ELSE t

StripText(t) == RStripText(LStripText(t))

\* a string value that holds the literal of a fence; <fence> stands for the
\* three backquotes
FenceInString == "send <fence>json sample"

\* str.replace(literal, '') on a string value of a document; kind names the
\* literal: "fence_json" is <fence>json, "fence" is <fence>
ReplaceLiteral(str, kind) ==
  IF str # FenceInString THEN str
  ELSE IF kind = "fence_json" THEN "send  sample"
  ELSE "send json sample"

\* str.replace reaches the text of the document too: its string values lose
\* the literal. The documents of the model hold a fence literal in
\* sales_intelligence.recommended_approach only
ReplaceInDoc(seg, kind) ==
  IF /\ seg.kind = "json"
     /\ seg.type = "object"
     /\ "sales_intelligence" \in DOMAIN seg.value
     /\ "recommended_approach" \in DOMAIN seg.value.sales_intelligence
  THEN [seg EXCEPT !.value.sales_intelligence.recommended_approach =
                      ReplaceLiteral(@, kind)]
  ELSE seg

\* str.replace(kind's literal, ''): every occurrence is removed, those that
\* wrap the document and those inside it
RECURSIVE Remove(_, _)
Remove(t, kind) ==
  IF t = <<>> THEN <<>>
  ELSE IF Head(t).kind = kind THEN Remove(Tail(t), kind)
  ELSE <<ReplaceInDoc(Head(t), kind)>> \o Remove(Tail(t), kind)

\* lines 106-110
ExtractJSON(text) ==
  LET response_text == StripText(text) IN
  IF response_text # <<>> /\ Head(response_text).kind = "fence_json"
  THEN StripText(Remove(Remove(response_text, "fence_json"), "fence"))
  ELSE IF response_text # <<>> /\ Head(response_text).kind = "fence"
  THEN StripText(Remove(response_text, "fence"))
  ELSE response_text

\* a decoder that returns the first value and ignores what follows it
json_loads_Lenient(response_text) ==
  LET t == StripText(response_text) IN
  IF t = <<>> \/ Head(t).kind # "json"
  THEN [ok |-> FALSE, exc |-> "Expecting value: line 1 column 1 (char 0)"]
  ELSE [ok |-> TRUE, doc |-> t[1]]

\* json.loads: [ok |-> TRUE, doc |-> segment] or [ok |-> FALSE, exc |-> msg];
\* whitespace around the one value is allowed, anything else is an error
json_loads(response_text) ==
  LET t == StripText(response_text) IN
  IF t = <<>> \/ Head(t).kind # "json"
  THEN [ok |-> FALSE, exc |-> "Expecting value: line 1 column 1 (char 0)"]
  ELSE IF Len(t) > 1 THEN [ok |-> FALSE, exc |-> "Extra data"]
  ELSE [ok |-> TRUE, doc |-> t[1]]

\* lines 112-123 on a decoded document: the analysis returned, or the
\* exception the subscripts and the format of the progress lines raise
\* str(KeyError(k))
KeyError(k) == "'" \o k \o "'"

\* the inspection without the progress line that reads priority_level
InspectAnalysis_NoPriority(doc) ==
  LET a == doc.value
      raise(msg) == [ok |-> FALSE, exc |-> msg]
  IN IF doc.type # "object"
       THEN raise("list indices must be integers or slices, not str")
     ELSE IF "overall_score" \notin DOMAIN a
       THEN raise(KeyError("overall_score"))
     ELSE IF "data_confidence" \notin DOMAIN a
       THEN raise(KeyError("data_confidence"))
     ELSE IF "confidence_score" \notin DOMAIN a.data_confidence
       THEN raise(KeyError("confidence_score"))
     ELSE IF "icp_fit" \notin DOMAIN a
       THEN raise(KeyError("icp_fit"))
     ELSE IF "icp_fit_score" \notin DOMAIN a.icp_fit
       THEN raise(KeyError("icp_fit_score"))
     ELSE IF "validated_employee_count" \notin DOMAIN a.data_confidence
       THEN raise(KeyError("validated_employee_count"))
     ELSE IF a.data_confidence.confidence_score = None
       THEN raise("unsupported format string passed to NoneType.__format__")
     ELSE [ok |-> TRUE, analysis |-> a]

InspectAnalysis(doc) ==
  LET a == doc.value
      raise(msg) == [ok |-> FALSE, exc |-> msg]
  IN IF doc.type # "object"
       THEN raise("list indices must be integers or slices, not str")
     ELSE IF "overall_score" \notin DOMAIN a
       THEN raise(KeyError("overall_score"))
     ELSE IF "data_confidence" \notin DOMAIN a
       THEN raise(KeyError("data_confidence"))
     ELSE IF "confidence_score" \notin DOMAIN a.data_confidence
       THEN raise(KeyError("confidence_score"))
     ELSE IF "icp_fit" \notin DOMAIN a
       THEN raise(KeyError("icp_fit"))
     ELSE IF "icp_fit_score" \notin DOMAIN a.icp_fit
       THEN raise(KeyError("icp_fit_score"))
     ELSE IF "validated_employee_count" \notin DOMAIN a.data_confidence
       THEN raise(KeyError("validated_employee_count"))
     ELSE IF a.data_confidence.confidence_score = None
       THEN raise("unsupported format string passed to NoneType.__format__")
     ELSE IF "sales_intelligence" \notin DOMAIN a
       THEN raise(KeyError("sales_intelligence"))
     ELSE IF "priority_level" \notin DOMAIN a.sales_intelligence
       THEN raise(KeyError("priority_level"))
     ELSE [ok |-> TRUE, analysis |-> a]

\* an analyzer with the JSONDecodeError clause only
ExceptClause_JSONOnly(type, msg) ==
  IF type = "JSONDecodeError"
  THEN [caught |-> TRUE, analysis |-> _create_fallback_analysis(msg)]
  ELSE [caught |-> FALSE]

\* the two except clauses of analyze_prospect (lines 125-130): both return the
\* fallback; type is the class of the exception raised in the try block
ExceptClause(type, msg) ==
  [caught |-> TRUE, analysis |-> _create_fallback_analysis(msg)]

\* prompts are kept symbolic: what they embed
get_research_prompt(business_name, address, city, state, ey_employees, cb_employees, cb_linkedin) ==
  [prompt |-> "research", business_name |-> business_name,
   address |-> address, city |-> city, state |-> state,
   ey_employees |-> ey_employees, cb_employees |-> cb_employees,
   cb_linkedin |-> cb_linkedin]

get_analysis_prompt(research_text, business_name, address, city, state, ey_data, connectbase_data) ==
  [prompt |-> "analysis", research_text |-> research_text,
   business_name |-> business_name, address |-> address, city |-> city,
   state |-> state, ey_employees |-> Get(ey_data, "No Of Employees", "N/A"),
   has_connectbase |-> Get(connectbase_data, "API_EntityName", "N/A") # "N/A",
   connectbase_data |-> connectbase_data]

\* ------------------------------------------------------ BatchOrchestrator
\* time.strftime('%Y-%m-%d %H:%M:%S'), kept symbolic
Now == "analysis_date"

\* lines 188-198
BattleCard(idx, ey_data, connectbase_data, geocode_data, llm_analysis, additional_tenants) ==
  [ey_file_data |-> ey_data,
   connectbase_data |-> connectbase_data,
   geocode_data |-> geocode_data,
   llm_analysis |-> llm_analysis,
   additional_tenants |-> additional_tenants,
   metadata |-> [analysis_date |-> Now, csv_row_index |-> idx]]

\* the synthetic card without the error in its metadata
SyntheticCard_NoError(idx, e) ==
  [ey_file_data |-> <<>>,
   connectbase_data |-> <<>>,
   geocode_data |->
     [latitude |-> None, longitude |-> None, geocode_quality |-> None,
      formatted_address |-> "", geocode_status |-> "error"],
   llm_analysis |-> _create_fallback_analysis(e),
   additional_tenants |-> <<>>,
   metadata |-> [analysis_date |-> Now, csv_row_index |-> idx]]

\* a synthetic card whose geocode section has a status of its own and no
\* quality
SyntheticCard_OwnStatus(idx, e) ==
  [ey_file_data |-> <<>>,
   connectbase_data |-> <<>>,
   geocode_data |->
     [latitude |-> None, longitude |-> None,
      formatted_address |-> "", geocode_status |-> "failed"],
   llm_analysis |-> _create_fallback_analysis(e),
   additional_tenants |-> <<>>,
   metadata |-> [analysis_date |-> Now, csv_row_index |-> idx, error |-> e]]

\* lines 228-245: the card the orchestrator makes for a task that raised e
SyntheticCard(idx, e) ==
  [ey_file_data |-> <<>>,
   connectbase_data |-> <<>>,
   geocode_data |->
     [latitude |-> None, longitude |-> None, geocode_quality |-> None,
      formatted_address |-> "", geocode_status |-> "error"],
   llm_analysis |-> _create_fallback_analysis(e),
   additional_tenants |-> <<>>,
   metadata |-> [analysis_date |-> Now, csv_row_index |-> idx, error |-> e]]

\* list.sort(key=lambda x: x[0]): a stable insertion sort on <<idx, card>>
RECURSIVE InsertByIndex(_, _)
InsertByIndex(sorted, r) ==
  IF sorted = <<>> THEN <<r>>
  ELSE IF sorted[Len(sorted)][1] <= r[1] THEN Append(sorted, r)
  ELSE Append(InsertByIndex(SubSeq(sorted, 1, Len(sorted) - 1), r),
              sorted[Len(sorted)])

\* the results left in the order of collection
SortByIndex_Unsorted(rs) == rs

RECURSIVE SortByIndex(_)
SortByIndex(rs) ==
  IF rs = <<>> THEN <<>>
  ELSE InsertByIndex(SortByIndex(SubSeq(rs, 1, Len(rs) - 1)), rs[Len(rs)])

\* ------------------------------------------------------------ ResultSink
\* the slice [:20] of line 61
TopLimit == 20

RECURSIVE SumSeq(_)
SumSeq(ns) == IF ns = <<>> THEN 0 ELSE ns[1] + SumSeq(Tail(ns))

\* round(n / d): the nearest integer, and whether n / d is exactly halfway
\* between two; a halfway quotient is rounded by its binary value, to value
\* or to value + 1. round(x, 1) is taken in tenths, round(x, 2) in
\* hundredths
Rounded(n, d) ==
  LET q == n \div d
      r == n % d
  IN [value |-> IF 2 * r > d THEN q + 1 ELSE q, halfway |-> (2 * r = d)]

\* the else branch of lines 25 and 31: the integer 0
Zero == [value |-> 0, halfway |-> FALSE]

\* bc['llm_analysis']['overall_score']
ScoreOf(bc) == bc.llm_analysis.overall_score

\* a filter that keeps every card
Scored_All(battle_cards) == battle_cards

\* lines 21-24, 30, 57: the cards with overall_score > 0, in list order
Scored(battle_cards) == SelectSeq(battle_cards, LAMBDA bc : ScoreOf(bc)[1] > 0)

\* lines 34-40
score_ranges(scores) ==
  LET count(lo, hi) ==
        Cardinality({i \in 1..Len(scores) : lo <= scores[i] /\ scores[i] < hi})
  IN ("80-100 (Excellent)" :>
        Cardinality({i \in 1..Len(scores) : scores[i] >= 80}))
     @@ ("60-79 (Good)" :> count(60, 80))
     @@ ("40-59 (Fair)" :> count(40, 60))
     @@ ("20-39 (Poor)" :> count(20, 40))
     @@ ("0-19 (Disqualified)" :>
        Cardinality({i \in 1..Len(scores) : scores[i] < 20}))

\* lines 45-56: the entry of a card in top_prospects
TopEntry(bc) ==
  [business_name |-> bc.ey_file_data["Name"],
   address |-> bc.ey_file_data["Address"],
   city |-> bc.ey_file_data["City"],
   state |-> bc.ey_file_data["State"],
   score |-> ScoreOf(bc),
   confidence |-> bc.llm_analysis.data_confidence.confidence_score,
   icp_score |-> bc.llm_analysis.icp_fit.icp_fit_score,
   validated_employees |->
     bc.llm_analysis.data_confidence.validated_employee_count,
   priority |-> bc.llm_analysis.sales_intelligence.priority_level,
   dqe_distance |-> Get(bc.connectbase_data, "DQE_Site_Distance", "N/A")]

\* sorted(..., key=score, reverse=True): stable, equal scores keep their
\* order
RECURSIVE InsertByScore(_, _)
InsertByScore(sorted, e) ==
  IF sorted = <<>> THEN <<e>>
  ELSE IF sorted[Len(sorted)].score[1] >= e.score[1] THEN Append(sorted, e)
  ELSE Append(InsertByScore(SubSeq(sorted, 1, Len(sorted) - 1), e),
              sorted[Len(sorted)])

Reverse(seq) == [i \in 1..Len(seq) |-> seq[Len(seq) + 1 - i]]

RECURSIVE InsertAscending(_, _)
InsertAscending(sorted, e) ==
  IF sorted = <<>> THEN <<e>>
  ELSE IF sorted[Len(sorted)].score[1] <= e.score[1] THEN Append(sorted, e)
  ELSE Append(InsertAscending(SubSeq(sorted, 1, Len(sorted) - 1), e),
              sorted[Len(sorted)])

RECURSIVE SortAscending(_)
SortAscending(entries) ==
  IF entries = <<>> THEN <<>>
  ELSE InsertAscending(SortAscending(SubSeq(entries, 1, Len(entries) - 1)),
                       entries[Len(entries)])

\* an ascending stable sort, reversed afterwards
SortByScore_Reversed(entries) == Reverse(SortAscending(entries))

RECURSIVE SortByScore(_)
SortByScore(entries) ==
  IF entries = <<>> THEN <<>>
  ELSE InsertByScore(SortByScore(SubSeq(entries, 1, Len(entries) - 1)),
                     entries[Len(entries)])

\* seq[:n]
FirstN(seq, n) == SubSeq(seq, 1, IF Len(seq) < n THEN Len(seq) ELSE n)

\* what makes the computation of a summary raise: a null overall_score is
\* compared with 0 (line 21), a null confidence is summed (line 31), a
\* scored card lacks an EY field (lines 46-49)
SummaryError(battle_cards) ==
  IF \E i \in 1..Len(battle_cards) : ScoreOf(battle_cards[i]) = None
  THEN Some("'>' not supported between instances of 'NoneType' and 'int'")
  ELSE LET scored == Scored(battle_cards) IN
    IF \E i \in 1..Len(scored) :
         scored[i].llm_analysis.data_confidence.confidence_score = None
    THEN Some("unsupported operand type(s) for +: 'int' and 'NoneType'")
    ELSE IF \E i \in 1..Len(scored) :
         ~({"Name", "Address", "City", "State"}
              \subseteq DOMAIN scored[i].ey_file_data)
    THEN Some(KeyError("Name"))
    ELSE None

\* lines 17-77; a result [ok |-> TRUE, summary |-> ...] or
\* [ok |-> FALSE, exc |-> message]. avg_score is in tenths, avg_confidence
\* in hundredths
_calculate_summary(battle_cards, input_tokens, output_tokens) ==
  IF SummaryError(battle_cards) # None
  THEN [ok |-> FALSE, exc |-> SummaryError(battle_cards)[1]]
  ELSE
    LET total == Len(battle_cards)
        scored == Scored(battle_cards)
        with_analysis == Len(scored)
        scores == [i \in 1..Len(scored) |-> ScoreOf(scored[i])[1]]
        confidences ==
          [i \in 1..Len(scored) |->
             scored[i].llm_analysis.data_confidence.confidence_score[1]]
    IN [ok |-> TRUE,
        summary |->
          [total_records |-> total,
           analyzed_records |-> with_analysis,
           skipped_records |-> total - with_analysis,
           generation_date |-> Now,
           avg_score |->
             IF scores # <<>>
             THEN Rounded(10 * SumSeq(scores), Len(scores)) ELSE Zero,
           avg_confidence |->
             IF confidences # <<>>
             THEN Rounded(SumSeq(confidences), Len(confidences)) ELSE Zero,
           score_distribution |-> score_ranges(scores),
           token_usage |->
             [input_tokens |-> input_tokens,
              output_tokens |-> output_tokens,
              total_tokens |-> input_tokens + output_tokens],
           top_prospects |->
             FirstN(SortByScore([i \in 1..Len(scored) |-> TopEntry(scored[i])]),
                    TopLimit)]]

\* a save whose exceptions escape
save_to_gcs_NoHandler(battle_cards, input_tokens, output_tokens, fault) ==
  LET s == _calculate_summary(battle_cards, input_tokens, output_tokens) IN
  IF ~s.ok THEN [returned |-> None, written |-> None, raised |-> Some(s.exc)]
  ELSE IF fault # None
    THEN [returned |-> None, written |-> None, raised |-> fault]
  ELSE [returned |-> Some(TRUE),
        written |-> Some([summary |-> s.summary,
                          battle_cards |-> battle_cards]),
        raised |-> None]

\* lines 79-114; fault is the exception of blob.upload_from_string, None
\* when the upload succeeds
save_to_gcs(battle_cards, input_tokens, output_tokens, fault) ==
  LET s == _calculate_summary(battle_cards, input_tokens, output_tokens) IN
  IF ~s.ok THEN [returned |-> Some(FALSE), written |-> None, raised |-> None]
  ELSE IF fault # None
    THEN [returned |-> Some(FALSE), written |-> None, raised |-> None]
  ELSE [returned |-> Some(TRUE),
        written |-> Some([summary |-> s.summary,
                          battle_cards |-> battle_cards]),
        raised |-> None]

\* lines 116-143; fault is the exception of open(), None when the file
\* opens. avg_score is in tenths
save_to_local(battle_cards, fault) ==
  IF \E i \in 1..Len(battle_cards) : ScoreOf(battle_cards[i]) = None
  THEN [returned |-> Some(FALSE), written |-> None, raised |-> None]
  ELSE IF fault # None
    THEN [returned |-> Some(FALSE), written |-> None, raised |-> None]
  ELSE
    LET total == Len(battle_cards)
        scored == Scored(battle_cards)
        with_analysis == Len(scored)
        scores == [i \in 1..Len(scored) |-> ScoreOf(scored[i])[1]]
    IN [returned |-> Some(TRUE),
        written |->
          Some([summary |->
                  [total_records |-> total,
                   analyzed_records |-> with_analysis,
                   avg_score |->
                     IF scores # <<>>
                     THEN Rounded(10 * SumSeq(scores), Len(scores))
                     ELSE Zero,
                   generation_date |-> Now],
                battle_cards |-> battle_cards]),
        raised |-> None]

\* ----------------------------------------------------------------- state
VARIABLES
  rows,                \* the input rows, a sequence of column -> value maps
  max_workers,         \* size of the worker pool
  svc,                 \* per row: what the external services answer
  mainpc,              \* position of process_rows_parallel
  queue,               \* the executor's work queue (row indices, FIFO)
  fut,                 \* per row: its future
  tpc,                 \* per row: position of its task
  loc,                 \* per row: the task's local variables; request is
                       \* the prompt of the generation call in flight
  yielded,             \* futures as_completed has already yielded
  results,             \* list of <<idx, card>>
  completed,           \* progress counter
  battle_cards,        \* the returned list
  total_input_tokens,
  total_output_tokens,
  token_lock,          \* 0 when free, else the row whose task holds it
  arrival,             \* history: row indices in the order collected
  issued,              \* history, per row: the requests its task has sent
  storage,             \* main() after process_csv: position, and what
                       \* save_to_gcs and save_to_local returned and wrote
  offered              \* history: counts of the responses given to _track_tokens

vars == <<rows, max_workers, svc, mainpc, queue, fut, tpc, loc, yielded,
          results, completed, battle_cards, total_input_tokens,
          total_output_tokens, token_lock, arrival, offered, issued,
          storage>>

N == Len(rows)
Idx == 1..N

NoFuture == [state |-> "none", result |-> None, exception |-> None]

NoLocals ==
  [ey_data |-> None, connectbase_data |-> None, additional_tenants |-> None,
   geocode_data |-> None, research_text |-> None, input_tokens |-> None,
   output_tokens |-> None, reg |-> 0, call |-> 0, llm_analysis |-> None,
   caught |-> None, request |-> None]

Running == {j \in Idx : fut[j].state = "running"}

NotSaved == [pc |-> "gcs", gcs |-> None, local |-> None]

\* ------------------------------------------------- inputs of the model
RowFull ==
  [Name |-> "Acme", Address |-> "1 Main St", City |-> "Pittsburgh",
   State |-> "PA", Zipcode |-> "15222", API_EntityName |-> "Acme Corp",
   DQE_Site_Distance |-> "0",
   API_Additional_Tenants |-> <<"A", ",", " ", "B">>]

RowBare == [Name |-> "Bolt", Address |-> "2 Oak Ave"]

\* a row whose ConnectBase columns are there and hold "N/A"
RowNA ==
  [Name |-> "Cask", Address |-> "3 Elm Rd", City |-> "Erie", State |-> "PA",
   Zipcode |-> "16501", API_EntityName |-> "N/A", DQE_Site_Distance |-> "N/A"]

GeoSuccess ==
  [status_code |-> 200,
   json |-> [results |->
     <<[location |-> [latitude |-> Some(40), longitude |-> Some(80)],
        formattedAddress |-> "1 Main St, Pittsburgh, PA 15222, USA",
        granularity |-> "PREMISE", placeId |-> "p1"]>>]]

Geo500 == [status_code |-> 500]

Usage(p, c) == [prompt_token_count |-> p, candidates_token_count |-> c]

\* a complete scoring document in the format the analysis prompt asks for
Analysis(score, confidence, icp, employees, priority) ==
  [overall_score |-> score,
   data_confidence |->
     [confidence_score |-> confidence,
      business_status_points |-> Num(40),
      employee_validation_points |-> Num(30),
      source_quality_points |-> Num(15),
      business_status |-> "operating",
      business_status_evidence |-> "recent reviews",
      validated_employee_count |-> employees,
      employee_count_confidence |-> "medium",
      employee_count_basis |-> "location-specific",
      employee_count_sources |-> <<"LinkedIn">>,
      employee_comparison |-> "EY: 40, CB: 45",
      location_type |-> "branch_office",
      data_quality_notes |-> "ok"],
   icp_fit |->
     [icp_fit_score |-> icp,
      network_economics_points |-> Num(20),
      business_scale_need_points |-> Num(60),
      network_analysis |->
        [dqe_distance_feet |-> "0",
         network_category |-> "on_net",
         build_cost_assessment |-> "zero",
         network_advantage |-> "on-net"],
      business_assessment |->
        [business_criticality |-> "high",
         criticality_reasoning |-> "data needs",
         infrastructure_needs |-> <<"DIA">>,
         bandwidth_requirements |-> "high",
         estimated_monthly_spend |-> None],
      competitive_context |->
        [competitors_at_site |-> "none",
         competitive_position |-> "strong"],
      icp_fit_summary |-> "good fit"],
   sales_intelligence |->
     [priority_level |-> priority,
      priority_reasoning |-> "score",
      key_selling_points |-> <<"on-net">>,
      likely_pain_points |-> <<"latency">>,
      competitive_angles |-> <<"price">>,
      data_gaps_to_resolve |-> <<"headcount">>,
      recommended_approach |-> "call",
      recommended_services |-> <<"DIA">>,
      next_best_actions |-> <<"email">>]]

Without(f, key) == [k \in DOMAIN f \ {key} |-> f[k]]

JsonObject(v) == [kind |-> "json", type |-> "object", value |-> v]
JsonArray == [kind |-> "json", type |-> "array", value |-> <<>>]
Ws == [kind |-> "ws"]
FenceJson == [kind |-> "fence_json"]
Fence == [kind |-> "fence"]
Prose == [kind |-> "prose"]

\* a row's script: crash is the exception that escapes _process_single_row
\* (None when nothing escapes), geo / research / scoring what the services do
Script(crash, geo, research, scoring) ==
  [crash |-> crash, geo |-> geo, research |-> research, scoring |-> scoring]

Reply(text, usage) == [text |-> Some(text), usage |-> usage]
ReplyNoUsage(text) == [text |-> Some(text)]
Raises(msg) == [exc |-> msg]

Report == "research report"
GoodText == <<JsonObject(Analysis(Num(68), Num(85), Num(80), Num(40), "high"))>>

\* ------------------------------------------------------------------ Init
InitWith(maxRows, RowValues, Scripts) ==
  /\ \E n \in 0..maxRows :
       /\ rows \in [1..n -> RowValues]
       /\ svc \in [1..n -> Scripts]
       /\ fut = [k \in 1..n |-> NoFuture]
       /\ tpc = [k \in 1..n |-> "idle"]
       /\ loc = [k \in 1..n |-> NoLocals]
       /\ issued = [k \in 1..n |-> <<>>]
  /\ max_workers \in 1..MaxWorkers
  /\ mainpc = "submit"
  /\ queue = <<>>
  /\ yielded = {}
  /\ results = <<>>
  /\ completed = 0
  /\ battle_cards = <<>>
  /\ total_input_tokens = 0
  /\ total_output_tokens = 0
  /\ token_lock = 0
  /\ arrival = <<>>
  /\ offered = [input |-> 0, output |-> 0]
  /\ storage = NotSaved

\* ---------------------------------------------------------- the row task
\* the task of row k ends: its future holds a result or an exception
Finish(k, result, exception) ==
  /\ fut' = [fut EXCEPT ![k] = [state |-> "finished", result |-> result,
                                exception |-> exception]]
  /\ tpc' = [tpc EXCEPT ![k] = "done"]
  /\ loc' = [loc EXCEPT ![k] = NoLocals]

\* an analyzer without except clauses: the exception escapes the row task
AnalysisRaises_Escapes(k, type, msg) == Finish(k, None, Some(msg))

\* an exception of class type is raised inside the try block of analyze_prospect
AnalysisRaises(k, type, msg) ==
  LET h == ExceptClause(type, msg) IN
  IF h.caught
  THEN /\ loc' = [loc EXCEPT ![k].llm_analysis = Some(h.analysis),
                            ![k].caught = Some(msg),
                            ![k].request = None]
       /\ tpc' = [tpc EXCEPT ![k] = "assemble"]
       /\ fut' = fut
  ELSE Finish(k, None, Some(msg))

\* where analyze_prospect continues after _track_tokens returned
AfterTrack(call) == IF call = 1 THEN "scoring" ELSE "parse"

\* a scoring prompt that leaves the research text out
AfterTrackLocals_NoResearch(l, call) ==
  IF call = 1
  THEN [l EXCEPT !.request =
          Some(get_analysis_prompt(None,
                                   Get(l.ey_data, "Name", "Unknown"),
                                   Get(l.ey_data, "Address", ""),
                                   Get(l.ey_data, "City", ""),
                                   Get(l.ey_data, "State", ""),
                                   l.ey_data, l.connectbase_data))]
  ELSE [l EXCEPT !.request = None]

\* lines 93-102: after the first call the scoring request is issued, its
\* prompt built from the research text; after the second none is in flight
AfterTrackLocals(l, call) ==
  IF call = 1
  THEN [l EXCEPT !.request =
          Some(get_analysis_prompt(l.research_text,
                                   Get(l.ey_data, "Name", "Unknown"),
                                   Get(l.ey_data, "Address", ""),
                                   Get(l.ey_data, "City", ""),
                                   Get(l.ey_data, "State", ""),
                                   l.ey_data, l.connectbase_data))]
  ELSE [l EXCEPT !.request = None]

\* the request log after _track_tokens returned: the scoring request is
\* sent after the first call
AfterTrackIssued(log, call) == IF call = 1 THEN Append(log, "scoring") ELSE log

\* the count a response offers for the totals (history only)
Count(usage, name) ==
  IF name \in DOMAIN usage /\ usage[name] # None THEN usage[name][1] ELSE 0

\* lines 50-53: entering _track_tokens with the response of call number call
TrackEnter(k, reply, call, research_text) ==
  IF "usage" \notin DOMAIN reply
  THEN /\ loc' = [loc EXCEPT ![k] =
                   AfterTrackLocals([@ EXCEPT !.research_text = research_text,
                                              !.call = call], call)]
       /\ tpc' = [tpc EXCEPT ![k] = AfterTrack(call)]
       /\ issued' = [issued EXCEPT ![k] = AfterTrackIssued(@, call)]
       /\ offered' = offered
  ELSE /\ loc' = [loc EXCEPT
                   ![k].research_text = research_text,
                   ![k].call = call,
                   ![k].request = None,
                   ![k].input_tokens =
                      Get(reply.usage, "prompt_token_count", Num(0)),
                   ![k].output_tokens =
                      Get(reply.usage, "candidates_token_count", Num(0))]
       /\ tpc' = [tpc EXCEPT ![k] = "acquire"]
       /\ issued' = issued
       /\ offered' =
            [input |-> offered.input + Count(reply.usage, "prompt_token_count"),
             output |-> offered.output
                          + Count(reply.usage, "candidates_token_count")]

\* an executor that starts a queued task whatever the number already running
Start_Unbounded(k) ==
  /\ queue # <<>> /\ k = Head(queue)
  /\ queue' = Tail(queue)
  /\ IF svc[k].crash # None
     THEN /\ Finish(k, None, svc[k].crash)
          /\ issued' = issued
     ELSE /\ fut' = [fut EXCEPT ![k].state = "running"]
          /\ issued' = [issued EXCEPT ![k] = Append(@, "geocode")]
          /\ tpc' = [tpc EXCEPT ![k] = "geocode"]
          /\ loc' = [loc EXCEPT
                ![k].ey_data = _extract_ey_data(rows[k]),
                ![k].connectbase_data = _extract_connectbase_data(rows[k]),
                ![k].additional_tenants = _extract_additional_tenants(rows[k])]
  /\ UNCHANGED <<rows, max_workers, svc, mainpc, yielded, results, completed,
                 battle_cards, total_input_tokens, total_output_tokens,
                 token_lock, arrival, offered,
                 storage>>

\* a worker takes the oldest queued task and runs lines 155-171 up to the
\* geocoding request
Start(k) ==
  /\ queue # <<>> /\ k = Head(queue)
  /\ Cardinality(Running) < max_workers
  /\ queue' = Tail(queue)
  /\ IF svc[k].crash # None
     THEN /\ Finish(k, None, svc[k].crash)
          /\ issued' = issued
     ELSE /\ fut' = [fut EXCEPT ![k].state = "running"]
          /\ issued' = [issued EXCEPT ![k] = Append(@, "geocode")]
          /\ tpc' = [tpc EXCEPT ![k] = "geocode"]
          /\ loc' = [loc EXCEPT
                ![k].ey_data = _extract_ey_data(rows[k]),
                ![k].connectbase_data = _extract_connectbase_data(rows[k]),
                ![k].additional_tenants = _extract_additional_tenants(rows[k])]
  /\ UNCHANGED <<rows, max_workers, svc, mainpc, yielded, results, completed,
                 battle_cards, total_input_tokens, total_output_tokens,
                 token_lock, arrival, offered,
                 storage>>

\* a task that analyses only rows with ConnectBase data
GeocodeReturn_SkipNoData(k) ==
  /\ tpc[k] = "geocode"
  /\ LET ey == loc[k].ey_data
         cb == loc[k].connectbase_data
         geocode_data ==
           _geocode_address(ey["Address"], ey["City"], ey["State"],
                            ey["Zipcode"], svc[k].geo)
     IN IF Get(cb, "API_EntityName", None) # "N/A"
        THEN /\ loc' = [loc EXCEPT
                  ![k].geocode_data = geocode_data,
                  ![k].request =
                     Some(get_research_prompt(
                            Get(ey, "Name", "Unknown"), Get(ey, "Address", ""),
                            Get(ey, "City", ""), Get(ey, "State", ""),
                            Get(ey, "No Of Employees", "N/A"),
                            Get(cb, "API_NoOfEmployees", "N/A"),
                            Get(cb, "API_LinkedIn", "N/A")))]
             /\ tpc' = [tpc EXCEPT ![k] = "research"]
             /\ issued' = [issued EXCEPT ![k] = Append(@, "research")]
        ELSE /\ loc' = [loc EXCEPT
                  ![k].geocode_data = geocode_data,
                  ![k].llm_analysis =
                     Some(_create_fallback_analysis("No ConnectBase data"))]
             /\ tpc' = [tpc EXCEPT ![k] = "assemble"]
             /\ issued' = issued
  /\ UNCHANGED <<rows, max_workers, svc, mainpc, queue, fut, yielded, results,
                 completed, battle_cards, total_input_tokens,
                 total_output_tokens, token_lock, arrival, offered,
                 storage>>

\* a geocoder that answers every row with the answer of the first row
GeocodeReturn_FirstAnswer(k) ==
  /\ tpc[k] = "geocode"
  /\ LET ey == loc[k].ey_data
         cb == loc[k].connectbase_data
     IN loc' = [loc EXCEPT
          ![k].geocode_data =
             _geocode_address(ey["Address"], ey["City"], ey["State"],
                              ey["Zipcode"], svc[1].geo),
          ![k].request =
             Some(get_research_prompt(
                    Get(ey, "Name", "Unknown"), Get(ey, "Address", ""),
                    Get(ey, "City", ""), Get(ey, "State", ""),
                    Get(ey, "No Of Employees", "N/A"),
                    Get(cb, "API_NoOfEmployees", "N/A"),
                    Get(cb, "API_LinkedIn", "N/A")))]
  /\ tpc' = [tpc EXCEPT ![k] = "research"]
  /\ issued' = [issued EXCEPT ![k] = Append(@, "research")]
  /\ UNCHANGED <<rows, max_workers, svc, mainpc, queue, fut, yielded, results,
                 completed, battle_cards, total_input_tokens,
                 total_output_tokens, token_lock, arrival, offered,
                 storage>>

\* lines 166-176, then lines 64-86: the geocoder returns and the research
\* request is issued
GeocodeReturn(k) ==
  /\ tpc[k] = "geocode"
  /\ LET ey == loc[k].ey_data
         cb == loc[k].connectbase_data
     IN loc' = [loc EXCEPT
          ![k].geocode_data =
             _geocode_address(ey["Address"], ey["City"], ey["State"],
                              ey["Zipcode"], svc[k].geo),
          ![k].request =
             Some(get_research_prompt(
                    Get(ey, "Name", "Unknown"), Get(ey, "Address", ""),
                    Get(ey, "City", ""), Get(ey, "State", ""),
                    Get(ey, "No Of Employees", "N/A"),
                    Get(cb, "API_NoOfEmployees", "N/A"),
                    Get(cb, "API_LinkedIn", "N/A")))]
  /\ tpc' = [tpc EXCEPT ![k] = "research"]
  /\ issued' = [issued EXCEPT ![k] = Append(@, "research")]
  /\ UNCHANGED <<rows, max_workers, svc, mainpc, queue, fut, yielded, results,
                 completed, battle_cards, total_input_tokens,
                 total_output_tokens, token_lock, arrival, offered,
                 storage>>

\* a research call that is sent again when it raised
ResearchReturn_Retry(k) ==
  /\ tpc[k] = "research"
  /\ LET reply == svc[k].research IN
     IF "exc" \in DOMAIN reply
     THEN /\ issued' = [issued EXCEPT ![k] = Append(@, "research")]
          /\ UNCHANGED <<loc, tpc, fut, offered>>
     ELSE TrackEnter(k, reply, 1, reply.text) /\ fut' = fut
  /\ UNCHANGED <<rows, max_workers, svc, mainpc, queue, yielded, results,
                 completed, battle_cards, total_input_tokens,
                 total_output_tokens, token_lock, arrival,
                 storage>>

\* lines 82-88: the research call returns or raises
ResearchReturn(k) ==
  /\ tpc[k] = "research"
  /\ LET reply == svc[k].research IN
     IF "exc" \in DOMAIN reply
     THEN /\ AnalysisRaises(k, "Exception", reply.exc)
          /\ offered' = offered
          /\ issued' = issued
     ELSE TrackEnter(k, reply, 1, reply.text) /\ fut' = fut
  /\ UNCHANGED <<rows, max_workers, svc, mainpc, queue, yielded, results,
                 completed, battle_cards, total_input_tokens,
                 total_output_tokens, token_lock, arrival,
                 storage>>

TypeErrorNone == "unsupported operand type(s) for +=: 'int' and 'NoneType'"

\* entering the section without waiting for the lock
Acquire_NoLock(k) ==
  /\ tpc[k] = "acquire"
  /\ token_lock' = k
  /\ tpc' = [tpc EXCEPT ![k] = "load_in"]
  /\ UNCHANGED <<rows, max_workers, svc, mainpc, queue, fut, loc, yielded,
                 results, completed, battle_cards, total_input_tokens,
                 total_output_tokens, arrival, offered, issued,
                 storage>>

\* line 55: with self._token_lock, entry
Acquire(k) ==
  /\ tpc[k] = "acquire"
  /\ token_lock = 0
  /\ token_lock' = k
  /\ tpc' = [tpc EXCEPT ![k] = "load_in"]
  /\ UNCHANGED <<rows, max_workers, svc, mainpc, queue, fut, loc, yielded,
                 results, completed, battle_cards, total_input_tokens,
                 total_output_tokens, arrival, offered, issued,
                 storage>>

\* line 56, the read of self.total_input_tokens
LoadIn(k) ==
  /\ tpc[k] = "load_in"
  /\ loc' = [loc EXCEPT ![k].reg = total_input_tokens]
  /\ tpc' = [tpc EXCEPT ![k] = "store_in"]
  /\ UNCHANGED <<rows, max_workers, svc, mainpc, queue, fut, yielded, results,
                 completed, battle_cards, total_input_tokens,
                 total_output_tokens, token_lock, arrival, offered, issued,
                 storage>>

\* an increment that raises and leaves the lock held
StoreIn_KeepLock(k) ==
  /\ tpc[k] = "store_in"
  /\ IF loc[k].input_tokens = None
     THEN /\ token_lock' = token_lock
          /\ AnalysisRaises(k, "Exception", TypeErrorNone)
          /\ total_input_tokens' = total_input_tokens
     ELSE /\ total_input_tokens' = loc[k].reg + loc[k].input_tokens[1]
          /\ tpc' = [tpc EXCEPT ![k] = "load_out"]
          /\ UNCHANGED <<token_lock, loc, fut>>
  /\ UNCHANGED <<rows, max_workers, svc, mainpc, queue, yielded, results,
                 completed, battle_cards, total_output_tokens, arrival,
                 offered, issued,
                 storage>>

\* line 56, the addition and the write; adding None raises TypeError, the
\* with statement releases the lock and the except clause takes over
StoreIn(k) ==
  /\ tpc[k] = "store_in"
  /\ IF loc[k].input_tokens = None
     THEN /\ token_lock' = 0
          /\ AnalysisRaises(k, "Exception", TypeErrorNone)
          /\ total_input_tokens' = total_input_tokens
     ELSE /\ total_input_tokens' = loc[k].reg + loc[k].input_tokens[1]
          /\ tpc' = [tpc EXCEPT ![k] = "load_out"]
          /\ UNCHANGED <<token_lock, loc, fut>>
  /\ UNCHANGED <<rows, max_workers, svc, mainpc, queue, yielded, results,
                 completed, battle_cards, total_output_tokens, arrival,
                 offered, issued,
                 storage>>

\* line 57, the read of self.total_output_tokens
LoadOut(k) ==
  /\ tpc[k] = "load_out"
  /\ loc' = [loc EXCEPT ![k].reg = total_output_tokens]
  /\ tpc' = [tpc EXCEPT ![k] = "store_out"]
  /\ UNCHANGED <<rows, max_workers, svc, mainpc, queue, fut, yielded, results,
                 completed, battle_cards, total_input_tokens,
                 total_output_tokens, token_lock, arrival, offered, issued,
                 storage>>

\* line 57, the addition and the write
StoreOut(k) ==
  /\ tpc[k] = "store_out"
  /\ IF loc[k].output_tokens = None
     THEN /\ token_lock' = 0
          /\ AnalysisRaises(k, "Exception", TypeErrorNone)
          /\ total_output_tokens' = total_output_tokens
     ELSE /\ total_output_tokens' = loc[k].reg + loc[k].output_tokens[1]
          /\ tpc' = [tpc EXCEPT ![k] = "release"]
          /\ UNCHANGED <<token_lock, loc, fut>>
  /\ UNCHANGED <<rows, max_workers, svc, mainpc, queue, yielded, results,
                 completed, battle_cards, total_input_tokens, arrival,
                 offered, issued,
                 storage>>

\* end of the with block: the lock is released and _track_tokens returns
Release(k) ==
  /\ tpc[k] = "release"
  /\ token_lock' = 0
  /\ tpc' = [tpc EXCEPT ![k] = AfterTrack(loc[k].call)]
  /\ loc' = [loc EXCEPT ![k] = AfterTrackLocals(@, loc[k].call)]
  /\ issued' = [issued EXCEPT ![k] = AfterTrackIssued(@, loc[k].call)]
  /\ UNCHANGED <<rows, max_workers, svc, mainpc, queue, fut, yielded,
                 results, completed, battle_cards, total_input_tokens,
                 total_output_tokens, arrival, offered,
                 storage>>

\* lines 93-103: the scoring call returns or raises
ScoringReturn(k) ==
  /\ tpc[k] = "scoring"
  /\ LET reply == svc[k].scoring IN
     IF "exc" \in DOMAIN reply
     THEN /\ AnalysisRaises(k, "Exception", reply.exc)
          /\ offered' = offered
          /\ issued' = issued
     ELSE TrackEnter(k, reply, 2, loc[k].research_text) /\ fut' = fut
  /\ UNCHANGED <<rows, max_workers, svc, mainpc, queue, yielded, results,
                 completed, battle_cards, total_input_tokens,
                 total_output_tokens, token_lock, arrival,
                 storage>>

\* lines 106-123: the scoring text is unwrapped, decoded and inspected
Parse(k) ==
  /\ tpc[k] = "parse"
  /\ LET text == svc[k].scoring.text IN
     IF text = None
     THEN AnalysisRaises(k, "Exception",
                         "'NoneType' object has no attribute 'strip'")
     ELSE LET decoded == json_loads(ExtractJSON(text[1])) IN
       IF ~decoded.ok
       THEN AnalysisRaises(k, "JSONDecodeError", decoded.exc)
       ELSE LET seen == InspectAnalysis(decoded.doc) IN
         IF ~seen.ok
         THEN AnalysisRaises(k, "Exception", seen.exc)
         ELSE /\ loc' = [loc EXCEPT ![k].llm_analysis = Some(seen.analysis)]
              /\ tpc' = [tpc EXCEPT ![k] = "assemble"]
              /\ fut' = fut
  /\ UNCHANGED <<rows, max_workers, svc, mainpc, queue, yielded, results,
                 completed, battle_cards, total_input_tokens,
                 total_output_tokens, token_lock, arrival, offered, issued,
                 storage>>

\* lines 188-200: the card is assembled and the task returns (idx, card)
Assemble(k) ==
  /\ tpc[k] = "assemble"
  /\ Finish(k, Some(<<k, BattleCard(k, loc[k].ey_data,
                                      loc[k].connectbase_data,
                                      loc[k].geocode_data,
                                      loc[k].llm_analysis[1],
                                      loc[k].additional_tenants)>>), None)
  /\ UNCHANGED <<rows, max_workers, svc, mainpc, queue, yielded, results,
                 completed, battle_cards, total_input_tokens,
                 total_output_tokens, token_lock, arrival, offered, issued,
                 storage>>

\* ------------------------------------------------ process_rows_parallel
\* lines 211-214: the next row is submitted to the executor
Submit ==
  /\ mainpc = "submit"
  /\ \E k \in Idx :
       /\ fut[k].state = "none"
       /\ \A j \in 1..(k - 1) : fut[j].state # "none"
       /\ fut' = [fut EXCEPT ![k].state = "pending"]
       /\ tpc' = [tpc EXCEPT ![k] = "queued"]
       /\ queue' = Append(queue, k)
  /\ UNCHANGED <<rows, max_workers, svc, mainpc, loc, yielded, results,
                 completed, battle_cards, total_input_tokens,
                 total_output_tokens, token_lock, arrival, offered, issued,
                 storage>>

\* line 218: every row is submitted, the as_completed loop starts
AllSubmitted ==
  /\ mainpc = "submit"
  /\ \A k \in Idx : fut[k].state # "none"
  /\ mainpc' = "collect"
  /\ UNCHANGED <<rows, max_workers, svc, queue, fut, tpc, loc, yielded,
                 results, completed, battle_cards, total_input_tokens,
                 total_output_tokens, token_lock, arrival, offered, issued,
                 storage>>

\* a collection loop that skips a task that raised
Collect_DropFailed(k) ==
  /\ mainpc = "collect"
  /\ fut[k].state = "finished"
  /\ k \notin yielded
  /\ yielded' = yielded \cup {k}
  /\ arrival' = Append(arrival, k)
  /\ IF fut[k].exception = None
     THEN /\ results' = Append(results, fut[k].result[1])
          /\ completed' = completed + 1
     ELSE /\ results' = results
          /\ completed' = completed
  /\ UNCHANGED <<rows, max_workers, svc, mainpc, queue, fut, tpc, loc,
                 battle_cards, total_input_tokens, total_output_tokens,
                 token_lock, offered, issued,
                 storage>>

\* lines 218-245: as_completed yields the finished future of row k
Collect(k) ==
  /\ mainpc = "collect"
  /\ fut[k].state = "finished"
  /\ k \notin yielded
  /\ yielded' = yielded \cup {k}
  /\ arrival' = Append(arrival, k)
  /\ IF fut[k].exception = None
     THEN /\ results' = Append(results, fut[k].result[1])
          /\ completed' = completed + 1
     ELSE /\ results' =
               Append(results, <<k, SyntheticCard(k, fut[k].exception[1])>>)
          /\ completed' = completed
  /\ UNCHANGED <<rows, max_workers, svc, mainpc, queue, fut, tpc, loc,
                 battle_cards, total_input_tokens, total_output_tokens,
                 token_lock, offered, issued,
                 storage>>

\* a loop that stops at the first future yielded
LoopDone_First == yielded # {} \/ Idx = {}

\* the as_completed loop ends when it has yielded every future
LoopDone == yielded = Idx

\* line 245-246: the loop is over and the with block shuts the executor
\* down, waiting for every worker
ExitPool ==
  /\ mainpc = "collect"
  /\ LoopDone
  /\ \A k \in Idx : fut[k].state = "finished"
  /\ mainpc' = "sort"
  /\ UNCHANGED <<rows, max_workers, svc, queue, fut, tpc, loc, yielded,
                 results, completed, battle_cards, total_input_tokens,
                 total_output_tokens, token_lock, arrival, offered, issued,
                 storage>>

\* lines 248-251
SortAndReturn ==
  /\ mainpc = "sort"
  /\ results' = SortByIndex(results)
  /\ battle_cards' = [i \in 1..Len(results) |-> results'[i][2]]
  /\ mainpc' = "done"
  /\ UNCHANGED <<rows, max_workers, svc, queue, fut, tpc, loc, yielded,
                 completed, total_input_tokens, total_output_tokens,
                 token_lock, arrival, offered, issued,
                 storage>>

\* ------------------------------------------------------------------ main
UploadFaults == {None, Some("503 POST upload: Service Unavailable")}
OpenFaults == {None, Some("[Errno 13] Permission denied")}

\* generator lines 96, 67-74: main saves the cards to the bucket
SaveToGcs ==
  /\ mainpc = "done"
  /\ storage.pc = "gcs"
  /\ \E fault \in UploadFaults :
       LET r == save_to_gcs(battle_cards, total_input_tokens,
                            total_output_tokens, fault)
       IN storage' = [storage EXCEPT
                        !.gcs = Some(r),
                        !.pc = IF r.raised # None THEN "raised" ELSE "local"]
  /\ UNCHANGED <<rows, max_workers, svc, mainpc, queue, fut, tpc, loc, yielded,
                 results, completed, battle_cards, total_input_tokens,
                 total_output_tokens, token_lock, arrival, offered, issued>>

\* generator lines 99, 76-78: main saves the cards to a local file
SaveToLocal ==
  /\ mainpc = "done"
  /\ storage.pc = "local"
  /\ \E fault \in OpenFaults :
       LET r == save_to_local(battle_cards, fault)
       IN storage' = [storage EXCEPT
                        !.local = Some(r),
                        !.pc = IF r.raised # None THEN "raised" ELSE "end"]
  /\ UNCHANGED <<rows, max_workers, svc, mainpc, queue, fut, tpc, loc, yielded,
                 results, completed, battle_cards, total_input_tokens,
                 total_output_tokens, token_lock, arrival, offered, issued>>

Next ==
  \/ Submit
  \/ AllSubmitted
  \/ \E k \in Idx : Start(k)
  \/ \E k \in Idx : GeocodeReturn(k)
  \/ \E k \in Idx : ResearchReturn(k)
  \/ \E k \in Idx : Acquire(k)
  \/ \E k \in Idx : LoadIn(k)
  \/ \E k \in Idx : StoreIn(k)
  \/ \E k \in Idx : LoadOut(k)
  \/ \E k \in Idx : StoreOut(k)
  \/ \E k \in Idx : Release(k)
  \/ \E k \in Idx : ScoringReturn(k)
  \/ \E k \in Idx : Parse(k)
  \/ \E k \in Idx : Assemble(k)
  \/ \E k \in Idx : Collect(k)
  \/ ExitPool
  \/ SortAndReturn
  \/ SaveToGcs
  \/ SaveToLocal

\* ------------------------------------------------------- specifications
\* the batch: rows that are processed normally and rows whose task raises
OkScript ==
  Script(None, GeoSuccess, Reply(Report, Usage(Num(1), Num(1))),
         Reply(GoodText, Usage(Num(1), Num(1))))

CrashScript ==
  Script(Some("row exploded"), GeoSuccess, Raises("unused"), Raises("unused"))

\* the research call raises: the analysis falls back and the task is short
ShortScript ==
  Script(None, Geo500, Raises("503 service unavailable"), Raises("unused"))

BatchScripts == {OkScript, CrashScript, ShortScript}

Init == InitWith(MaxRows, {RowFull}, BatchScripts)

Spec == Init /\ [][Next]_vars

\* token accounting: responses whose usage metadata is complete, has a null
\* count, is None or is missing
CountedScript ==
  Script(None, GeoSuccess, Reply(Report, Usage(Num(MaxTok), Num(1))),
         Reply(GoodText, Usage(Num(1), Num(MaxTok))))

NullPromptScript ==
  Script(None, GeoSuccess, Reply(Report, Usage(None, Num(MaxTok))),
         Reply(GoodText, Usage(Num(1), Num(1))))

NullCandidatesScript ==
  Script(None, GeoSuccess, Reply(Report, Usage(Num(1), Num(1))),
         Reply(GoodText, Usage(Num(MaxTok), None)))

NoUsageScript ==
  Script(None, GeoSuccess, ReplyNoUsage(Report), Reply(GoodText, None))

TokenScripts ==
  {CountedScript, NullPromptScript, NullCandidatesScript, NoUsageScript}

InitTokens == InitWith(MaxTokenRows, {RowBare}, TokenScripts)

SpecTokens == InitTokens /\ [][Next]_vars

\* the analyzer: one script per way the two generation calls can answer
GoodDoc == Analysis(Num(68), Num(85), Num(80), Num(40), "high")
HalfDoc == Analysis(Num(45), Num(50), Num(90), None, "medium")
WrongScoreDoc == Analysis(Num(99), Num(50), Num(90), Num(40), "immediate")
NullConfidenceDoc == Analysis(Num(0), None, Num(80), Num(40), "low")

\* a complete document one of whose strings quotes a fence
QuotedFenceDoc ==
  [GoodDoc EXCEPT !.sales_intelligence.recommended_approach = FenceInString]

IncompleteDocs ==
  {Without(GoodDoc, "overall_score"),
   Without(GoodDoc, "data_confidence"),
   Without(GoodDoc, "icp_fit"),
   Without(GoodDoc, "sales_intelligence"),
   [GoodDoc EXCEPT !.data_confidence = Without(@, "confidence_score")],
   [GoodDoc EXCEPT !.data_confidence = Without(@, "validated_employee_count")],
   [GoodDoc EXCEPT !.icp_fit = Without(@, "icp_fit_score")],
   [GoodDoc EXCEPT !.sales_intelligence = Without(@, "priority_level")]}

\* texts that are one JSON document, bare, padded or fenced
JsonTexts ==
  {<<JsonObject(d)>> :
      d \in {GoodDoc, HalfDoc, WrongScoreDoc, NullConfidenceDoc}
             \cup IncompleteDocs}
  \cup {<<JsonArray>>,
        <<Ws, JsonObject(GoodDoc), Ws>>,
        <<FenceJson, Ws, JsonObject(GoodDoc), Ws, Fence>>,
        <<Fence, Ws, JsonObject(HalfDoc), Ws, Fence, Ws>>,
        <<JsonObject(QuotedFenceDoc)>>,
        <<FenceJson, Ws, JsonObject(QuotedFenceDoc), Ws, Fence>>,
        <<Fence, Ws, JsonObject(QuotedFenceDoc), Ws, Fence>>}

\* texts that are no JSON document, fenced or not
NotJsonTexts ==
  {<<>>,
   <<Prose>>,
   <<JsonObject(GoodDoc), Prose>>,
   <<Prose, FenceJson, JsonObject(GoodDoc), Fence>>,
   <<FenceJson, Prose, Fence>>}

OneOne == Usage(Num(1), Num(1))

AnalyzerScripts ==
  {Script(None, Geo500, Reply(Report, OneOne), Reply(t, OneOne)) :
      t \in JsonTexts \cup NotJsonTexts}
  \cup {Script(None, Geo500, Raises("503 service unavailable"), Raises("unused")),
        Script(None, Geo500, Reply(Report, OneOne), Raises("deadline exceeded")),
        Script(None, Geo500, Reply(Report, OneOne), [text |-> None, usage |-> OneOne]),
        Script(None, Geo500, [text |-> None, usage |-> OneOne], Reply(GoodText, OneOne))}

InitAnalyzer == InitWith(MaxAnalyzerRows, {RowBare}, AnalyzerScripts)

SpecAnalyzer == InitAnalyzer /\ [][Next]_vars

\* ------------------------------------------------------------ the batch
Crashed(k) == svc[k].crash # None

CardsOf(k) ==
  {j \in 1..Len(battle_cards) : battle_cards[j].metadata.csv_row_index = k}

\* C1: when process_rows_parallel has returned, the list has exactly N
\* cards and every row index 1..N is the csv_row_index of exactly one of
\* them, whichever row tasks raised.
C1_OneCardPerRow ==
  mainpc = "done" =>
    /\ Len(battle_cards) = N
    /\ \A k \in Idx : Cardinality(CardsOf(k)) = 1

C1_Witness ==
  /\ mainpc = "done"
  /\ N >= 2
  /\ \E k \in Idx : Crashed(k)
  /\ \E k \in Idx : ~Crashed(k)

\* C2: the k-th card of the returned list is the card of the k-th row,
\* whatever the order in which the tasks finished and were collected.
C2_OutputInInputOrder ==
  mainpc = "done" =>
    \A i \in 1..Len(battle_cards) :
      battle_cards[i].metadata.csv_row_index = i

C2_Witness ==
  /\ mainpc = "done"
  /\ \E i, j \in 1..Len(arrival) : i < j /\ arrival[i] > arrival[j]

\* C3: the batch returns although tasks raised; a row whose task raised is returned as a
\* synthetic card with the fallback analysis, its own row index and the
\* error text in metadata.error, and every other row is returned processed.
C3_FailedRowIsolated ==
  mainpc = "done" =>
    \A k \in Idx : \E j \in 1..Len(battle_cards) :
      LET card == battle_cards[j] IN
      /\ card.metadata.csv_row_index = k
      /\ IF Crashed(k)
         THEN /\ "error" \in DOMAIN card.metadata
              /\ card.metadata.error = svc[k].crash[1]
              /\ card.llm_analysis =
                   _create_fallback_analysis(svc[k].crash[1])
         ELSE /\ "error" \notin DOMAIN card.metadata
              /\ card.ey_file_data = _extract_ey_data(rows[k])

C3_Witness ==
  /\ mainpc = "done"
  /\ \E k \in Idx : Crashed(k) /\ arrival[1] = k
  /\ \E k \in Idx : ~Crashed(k)

\* C10: the sort and the return happen only when every submitted task has
\* finished and the result of every task has been collected.
C10_SortAfterLastResult ==
  mainpc \in {"sort", "done"} =>
    /\ \A k \in Idx : fut[k].state = "finished" /\ tpc[k] = "done"
    /\ yielded = Idx
    /\ Len(results) = N

C10_Witness ==
  /\ mainpc = "sort"
  /\ N >= 2
  /\ arrival # <<>> /\ arrival[Len(arrival)] = 1

\* --------------------------------------------------- token accounting
\* C4: once the batch has returned, each total equals its value before the
\* batch (0) plus the sum of the counts of every response that was given to
\* _track_tokens.
C4_TotalsEqualOfferedCounts ==
  mainpc = "done" =>
    /\ total_input_tokens = offered.input
    /\ total_output_tokens = offered.output

InCritical(k) ==
  tpc[k] \in {"load_in", "store_in", "load_out", "store_out", "release"}

\* C5: at most one task is inside the section that updates the totals and
\* it holds the token lock; a total changes only in a step of the lock's
\* holder; a step of a row task changes nothing of another task and nothing
\* of the collecting thread.
C5_TotalsWrittenUnderLock ==
  /\ [](/\ Cardinality({k \in Idx : InCritical(k)}) <= 1
        /\ \A k \in Idx : InCritical(k) => token_lock = k)
  /\ [][(\/ total_input_tokens' # total_input_tokens
          \/ total_output_tokens' # total_output_tokens)
         => /\ token_lock # 0
            /\ tpc[token_lock] \in {"store_in", "store_out"}
            /\ tpc'[token_lock] # tpc[token_lock]]_vars
  /\ [][\A k \in Idx :
          (tpc'[k] # tpc[k] /\ tpc[k] # "idle")
          => /\ \A j \in Idx \ {k} : loc'[j] = loc[j] /\ fut'[j] = fut[j]
             /\ UNCHANGED <<results, yielded, completed, battle_cards>>]_vars

C5_Witness ==
  \E j, k \in Idx :
    /\ j # k
    /\ tpc[j] = "store_out"
    /\ tpc[k] = "acquire"
    /\ total_input_tokens > 0

\* --------------------------------------------------------- the analyzer
\* the task of row k has returned its card
Returned(k) == fut[k].state = "finished" /\ fut[k].exception = None

AnalysisOf(k) == fut[k].result[1][2].llm_analysis

\* a has the shape and the values of the fallback, whatever its error text
IsFallback(a) ==
  /\ "data_confidence" \in DOMAIN a
  /\ "data_quality_notes" \in DOMAIN a.data_confidence
  /\ a = [_create_fallback_analysis("") EXCEPT
            !.data_confidence.data_quality_notes =
               a.data_confidence.data_quality_notes]

\* C6: analyze_prospect never raises: a task that nothing else makes fail
\* returns a card; when the research call raised, the scoring call raised,
\* the scoring text was None or was no JSON, the analysis is the fallback
\* and its data_quality_notes hold the error text.
C6_AnalyzerNeverRaises ==
  \A k \in Idx :
    /\ (fut[k].state = "finished" /\ ~Crashed(k)) => fut[k].exception = None
    /\ (tpc[k] = "assemble" /\ loc[k].caught # None)
         => loc[k].llm_analysis[1].data_confidence.data_quality_notes
              = "Error: " \o loc[k].caught[1]
    /\ Returned(k) =>
         /\ "exc" \in DOMAIN svc[k].research =>
              AnalysisOf(k) = _create_fallback_analysis(svc[k].research.exc)
         /\ ("exc" \notin DOMAIN svc[k].research
              /\ "exc" \in DOMAIN svc[k].scoring) =>
              AnalysisOf(k) = _create_fallback_analysis(svc[k].scoring.exc)
         /\ ("exc" \notin DOMAIN svc[k].research
              /\ "exc" \notin DOMAIN svc[k].scoring
              /\ (\/ svc[k].scoring.text = None
                  \/ svc[k].scoring.text[1] \in NotJsonTexts)) =>
              IsFallback(AnalysisOf(k))

C6_Witness ==
  \E k \in Idx :
    /\ Returned(k)
    /\ "exc" \notin DOMAIN svc[k].research
    /\ "exc" \in DOMAIN svc[k].scoring
    /\ IsFallback(AnalysisOf(k))

\* the scoring response of row k was received and is no JSON document
ScoringNotJson(k) ==
  /\ Returned(k)
  /\ "exc" \notin DOMAIN svc[k].research
  /\ "exc" \notin DOMAIN svc[k].scoring
  /\ svc[k].scoring.text # None
  /\ svc[k].scoring.text[1] \in NotJsonTexts

ListFields(a) ==
  [employee_count_sources |-> a.data_confidence.employee_count_sources,
   infrastructure_needs |-> a.icp_fit.business_assessment.infrastructure_needs,
   key_selling_points |-> a.sales_intelligence.key_selling_points,
   likely_pain_points |-> a.sales_intelligence.likely_pain_points,
   competitive_angles |-> a.sales_intelligence.competitive_angles,
   data_gaps_to_resolve |-> a.sales_intelligence.data_gaps_to_resolve,
   recommended_services |-> a.sales_intelligence.recommended_services,
   next_best_actions |-> a.sales_intelligence.next_best_actions]

\* C7 as stated: a scoring response that is no JSON gives the fallback, with
\* overall_score 0, priority_level "disqualify" and every list field empty.
C7_AllListsEmpty ==
  \A k \in Idx : ScoringNotJson(k) =>
    /\ IsFallback(AnalysisOf(k))
    /\ AnalysisOf(k).overall_score = Num(0)
    /\ AnalysisOf(k).sales_intelligence.priority_level = "disqualify"
    /\ \A f \in DOMAIN ListFields(AnalysisOf(k)) :
         ListFields(AnalysisOf(k))[f] = <<>>

\* C7 amended: a scoring response that is no JSON gives the fallback, with
\* overall_score 0, priority_level "disqualify" and every list field empty
\* except data_gaps_to_resolve and next_best_actions, which hold one fixed
\* advisory string each.
C7_FallbackOnUndecodable ==
  \A k \in Idx : ScoringNotJson(k) =>
    /\ IsFallback(AnalysisOf(k))
    /\ AnalysisOf(k).overall_score = Num(0)
    /\ AnalysisOf(k).sales_intelligence.priority_level = "disqualify"
    /\ ListFields(AnalysisOf(k)) =
         [employee_count_sources |-> <<>>,
          infrastructure_needs |-> <<>>,
          key_selling_points |-> <<>>,
          likely_pain_points |-> <<>>,
          competitive_angles |-> <<>>,
          data_gaps_to_resolve |-> <<"Complete data validation required">>,
          recommended_services |-> <<>>,
          next_best_actions |-> <<"Retry data enrichment">>]

C7_Witness ==
  \E k \in Idx :
    /\ ScoringNotJson(k)
    /\ svc[k].scoring.text[1] = <<JsonObject(GoodDoc), Prose>>
    /\ AnalysisOf(k).data_confidence.data_quality_notes = "Error: Extra data"

HasRequiredKeys(a) ==
  /\ {"overall_score", "data_confidence", "icp_fit", "sales_intelligence"}
       \subseteq DOMAIN a
  /\ {"confidence_score", "validated_employee_count"}
       \subseteq DOMAIN a.data_confidence
  /\ "icp_fit_score" \in DOMAIN a.icp_fit
  /\ "priority_level" \in DOMAIN a.sales_intelligence

\* C8: the llm_analysis of every card, returned by a task or collected,
\* contains overall_score, data_confidence.confidence_score,
\* data_confidence.validated_employee_count, icp_fit.icp_fit_score and
\* sales_intelligence.priority_level; a decoded document that lacks one of
\* them is replaced by the fallback.
C8_AnalysisHasRequiredKeys ==
  /\ \A k \in Idx : Returned(k) =>
       /\ HasRequiredKeys(AnalysisOf(k))
       /\ ("exc" \notin DOMAIN svc[k].scoring
            /\ svc[k].scoring.text # None
            /\ \E d \in IncompleteDocs :
                 svc[k].scoring.text[1] = <<JsonObject(d)>>)
           => IsFallback(AnalysisOf(k))
  /\ \A i \in 1..Len(results) : HasRequiredKeys(results[i][2].llm_analysis)

C8_Witness ==
  \E k \in Idx :
    /\ Returned(k)
    /\ svc[k].scoring = Reply(<<JsonObject([GoodDoc EXCEPT
          !.sales_intelligence = Without(@, "priority_level")])>>, OneOne)
    /\ IsFallback(AnalysisOf(k))
    /\ k \in yielded

\* round(c / 100 * i) as Python rounds: to nearest, ties to even
PyRound(c, i) ==
  LET q == (c * i) \div 100
      r == (c * i) % 100
  IN IF r < 50 THEN q
     ELSE IF r > 50 THEN q + 1
     ELSE IF q % 2 = 0 THEN q ELSE q + 1

\* C9: every analysis that analyze_prospect returns and that is not the
\* fallback has overall_score = round(confidence_score x icp_fit_score).
C9_ScoreIsRoundedProduct ==
  \A k \in Idx :
    (Returned(k) /\ ~IsFallback(AnalysisOf(k))) =>
      LET a == AnalysisOf(k) IN
      /\ a.data_confidence.confidence_score # None
      /\ a.icp_fit.icp_fit_score # None
      /\ a.overall_score =
           Num(PyRound(a.data_confidence.confidence_score[1],
                       a.icp_fit.icp_fit_score[1]))

\* ---------------------------------------------------- concurrent requests
\* the rows with a request to the geocoding or the generation service in
\* flight
InFlight == {k \in Idx : tpc[k] \in {"geocode", "research", "scoring"}}

\* C11: at every moment at most max_workers row tasks are in progress, and
\* so at most max_workers requests to the external services are in flight;
\* every request in flight belongs to a task in progress.
C11_AtMostWInFlight ==
  /\ Cardinality(Running) <= max_workers
  /\ InFlight \subseteq Running
  /\ Cardinality(InFlight) <= max_workers

\* the pool is the limit that binds: as many requests as workers are in
\* flight at once while another row waits in the queue
C11_Witness ==
  /\ Cardinality(InFlight) = max_workers
  /\ \E k \in Idx : tpc[k] = "queued"

\* ------------------------------------------------- the steps of one task
IsResearchRequest(q) == q # None /\ q[1].prompt = "research"
IsScoringRequest(q) == q # None /\ q[1].prompt = "analysis"

ResearchFailed(k) == "exc" \in DOMAIN svc[k].research

\* C12: in a row task the data is extracted before the geocoding request,
\* the research request is issued when the geocoder has returned, the
\* scoring request is issued only when the research call has returned a
\* response and its prompt holds that response's text; a row whose research
\* call raises never has a scoring request.
C12_StepsInOrder ==
  /\ [](\A k \in Idx :
         /\ tpc[k] = "geocode" =>
              /\ loc[k].ey_data # None
              /\ loc[k].geocode_data = None
              /\ loc[k].request = None
         /\ tpc[k] = "research" => loc[k].geocode_data # None
         /\ tpc[k] = "research" <=> IsResearchRequest(loc[k].request)
         /\ tpc[k] = "scoring" <=> IsScoringRequest(loc[k].request)
         /\ ResearchFailed(k) => ~IsScoringRequest(loc[k].request))
  /\ [][\A k \in Idx :
          (IsResearchRequest(loc'[k].request)
             /\ ~IsResearchRequest(loc[k].request)) =>
            /\ tpc[k] = "geocode"
            /\ loc'[k].geocode_data # None]_vars
  /\ [][\A k \in Idx :
          (IsScoringRequest(loc'[k].request)
             /\ ~IsScoringRequest(loc[k].request)) =>
            /\ tpc[k] \in {"research", "release"}
            /\ ~ResearchFailed(k)
            /\ loc'[k].request[1].research_text = svc[k].research.text]_vars

C12_Witness ==
  /\ \E k \in Idx : /\ tpc[k] = "scoring"
                     /\ loc[k].request[1].research_text = Some(Report)
  /\ \E j \in Idx : ResearchFailed(j) /\ ~Crashed(j) /\ tpc[j] = "done"

\* ------------------------------------------------------------ the geocoder
\* what the geocoding service can answer: an exception of requests.get, a
\* status other than 200, a 200 whose body does not decode, and 200 bodies
\* without results, with an empty list, with one result, with a result that
\* lacks fields and with two results
GeoTimeout == Raises("HTTPSConnectionPool: Read timed out.")
Geo404 == [status_code |-> 404, json |-> [error |-> "not found"]]
Geo204 == [status_code |-> 204]
Geo200NoBody == [status_code |-> 200]
Geo200NoResults == [status_code |-> 200, json |-> [status |-> "ok"]]
Geo200NullResults == [status_code |-> 200, json |-> [results |-> None]]
Geo200Empty == [status_code |-> 200, json |-> [results |-> <<>>]]
Geo200Sparse ==
  [status_code |-> 200, json |-> [results |-> <<[placeId |-> "p9"]>>]]
Geo200Two ==
  [status_code |-> 200,
   json |-> [results |->
     <<[location |-> [latitude |-> Some(41), longitude |-> Some(79)],
        formattedAddress |-> "2 Oak Ave, Pittsburgh, PA, USA",
        granularity |-> "ROUTE", placeId |-> "p2"],
       [location |-> [latitude |-> Some(10), longitude |-> Some(20)],
        formattedAddress |-> "2 Oak Ave, Portland, OR, USA",
        granularity |-> "BLOCK", placeId |-> "p3"]>>]]

GeoReplies ==
  {GeoTimeout, Geo500, Geo404, Geo204, Geo200NoBody, Geo200NoResults,
   Geo200NullResults, Geo200Empty, GeoSuccess, Geo200Sparse, Geo200Two}

\* the analysis runs in full after a located and after a failed request,
\* and stops at a research call that raises after the other replies
GeocoderScripts ==
  {Script(None, g, Reply(Report, OneOne), Reply(GoodText, OneOne)) :
     g \in {GeoSuccess, GeoTimeout}}
  \cup {Script(None, g, Raises("503 service unavailable"), Raises("unused")) :
          g \in GeoReplies \ {GeoSuccess, GeoTimeout}}
  \cup {Script(None, Geo404, Reply(Report, OneOne), Reply(<<Prose>>, OneOne)),
        Script(None, Geo404, Reply(Report, OneOne),
               Raises("deadline exceeded"))}

InitGeocoder ==
  InitWith(MaxGeocoderRows, {RowFull, RowBare, RowNA}, GeocoderScripts)

SpecGeocoder == InitGeocoder /\ [][Next]_vars

\* the geocoding results at hand: <<row, result>> for each task that holds
\* one and for each returned card that a task assembled
GeoResults ==
  {<<k, loc[k].geocode_data>> : k \in {j \in Idx : loc[j].geocode_data # None}}
  \cup {<<battle_cards[i].metadata.csv_row_index, battle_cards[i].geocode_data>> :
          i \in {j \in 1..Len(battle_cards) :
                   "error" \notin DOMAIN battle_cards[j].metadata}}

NullCoordinates(g) == g.latitude = None /\ g.longitude = None

\* the address the geocoder was asked for
AskedAddress(k) ==
  LET ey == _extract_ey_data(rows[k]) IN
  FullAddress(ey["Address"], ey["City"], ey["State"], ey["Zipcode"], TRUE)

HasResults(reply) ==
  /\ "results" \in DOMAIN reply.json
  /\ reply.json.results # None
  /\ Len(reply.json.results) > 0

\* C13: a response with a status other than 200 gives "error_<status>" and
\* null coordinates; a 200 whose body has no or an empty result list gives
\* "no_results" and null coordinates; a 200 with results gives "success"
\* with the coordinates, address, granularity and place id of the first
\* result.
C13_GeocodeMapping ==
  \A p \in GeoResults :
    LET reply == svc[p[1]].geo
        g == p[2]
    IN "status_code" \in DOMAIN reply =>
         /\ reply.status_code # 200 =>
              /\ g.geocode_status = "error_" \o ToString(reply.status_code)
              /\ NullCoordinates(g)
         /\ reply.status_code = 500 => g.geocode_status = "error_500"
         /\ (reply.status_code = 200 /\ "json" \in DOMAIN reply) =>
              IF HasResults(reply)
              THEN LET first == reply.json.results[1] IN
                   /\ g.geocode_status = "success"
                   /\ g.latitude =
                        IF "location" \in DOMAIN first
                        THEN Get(first.location, "latitude", None) ELSE None
                   /\ g.longitude =
                        IF "location" \in DOMAIN first
                        THEN Get(first.location, "longitude", None) ELSE None
                   /\ g.formatted_address =
                        Get(first, "formattedAddress", AskedAddress(p[1]))
                   /\ g.geocode_quality =
                        Some([granularity |-> Get(first, "granularity", "UNKNOWN"),
                              place_id |-> Get(first, "placeId", "")])
              ELSE /\ g.geocode_status = "no_results"
                   /\ NullCoordinates(g)

\* a batch has returned a card geocoded from a body with two results: it
\* holds the first one
C13_Witness ==
  /\ mainpc = "done"
  /\ \E i \in 1..Len(battle_cards) :
       /\ svc[i].geo = Geo200Two
       /\ battle_cards[i].geocode_data.geocode_status = "success"
       /\ battle_cards[i].geocode_data.latitude = Some(41)
       /\ battle_cards[i].geocode_data.geocode_quality[1].place_id = "p2"

\* the call raised inside the try block: requests.get raised, or the body
\* of a 200 response did not decode
GeoRaised(reply) ==
  \/ "exc" \in DOMAIN reply
  \/ reply.status_code = 200 /\ "json" \notin DOMAIN reply

GeoMessage(reply) ==
  IF "exc" \in DOMAIN reply THEN reply.exc
  ELSE "Expecting value: line 1 column 1 (char 0)"

\* C14: an exception inside _geocode_address becomes a result with status
\* "error", null coordinates and the message in geocode_error; the row task
\* goes on, its future never holds an exception and its card is the task's
\* own.
C14_GeocoderNeverRaises ==
  /\ \A p \in GeoResults :
       GeoRaised(svc[p[1]].geo) =>
         /\ p[2].geocode_status = "error"
         /\ NullCoordinates(p[2])
         /\ "geocode_error" \in DOMAIN p[2]
         /\ p[2].geocode_error = GeoMessage(svc[p[1]].geo)
  /\ \A k \in Idx :
       (GeoRaised(svc[k].geo) /\ ~Crashed(k)) =>
         /\ fut[k].exception = None
         /\ tpc[k] \notin {"idle", "queued", "geocode", "done"} =>
              loc[k].geocode_data # None
         /\ fut[k].state = "finished" =>
              /\ fut[k].result # None
              /\ fut[k].result[1][2].geocode_data.geocode_status = "error"
         /\ mainpc = "done" =>
              /\ "error" \notin DOMAIN battle_cards[k].metadata
              /\ <<k, battle_cards[k].geocode_data>> \in GeoResults

\* a batch returned the analysed card of a row whose geocoding request
\* timed out
C14_Witness ==
  /\ mainpc = "done"
  /\ \E i \in 1..Len(battle_cards) :
       /\ svc[i].geo = GeoTimeout
       /\ battle_cards[i].geocode_data.geocode_error = GeoTimeout.exc
       /\ battle_cards[i].llm_analysis = GoodDoc

\* ------------------------------------------------ analysis of every row
Sent(k, kind) == \E i \in 1..Len(issued[k]) : issued[k][i] = kind

NoConnectBase(k) ==
  _extract_connectbase_data(rows[k])["API_EntityName"] = "N/A"

\* C15: whatever the row holds, a task that has got its geocoding result
\* has sent the research request, a finished task returns a card with an
\* analysis, and every returned card has an analysis.
C15_AnalysisAlwaysRuns ==
  /\ \A k \in Idx :
       (~Crashed(k)) =>
         /\ tpc[k] \notin {"idle", "queued", "geocode", "done"} =>
              Sent(k, "research")
         /\ fut[k].state = "finished" =>
              /\ Sent(k, "research")
              /\ fut[k].result[1][2].llm_analysis # None
  /\ mainpc = "done" =>
       \A i \in 1..Len(battle_cards) : battle_cards[i].llm_analysis # None

\* a row with "N/A" for its ConnectBase entity was researched, scored and
\* returned with the analysis of the scoring response
C15_Witness ==
  /\ mainpc = "done"
  /\ \E k \in Idx :
       /\ rows[k] = RowNA
       /\ NoConnectBase(k)
       /\ issued[k] = <<"geocode", "research", "scoring">>
       /\ battle_cards[k].llm_analysis = GoodDoc

\* lines 212-214 and 254 of the analysis prompt: what the network fields
\* are to hold when there is no network data
NoDataValues == {"NO_DATA", "no_data", "unknown"}

\* C16: the analysis returned for a row without a ConnectBase entity name
\* holds "NO_DATA", "no_data" or "unknown" in dqe_distance_feet,
\* network_category and build_cost_assessment.
C16_NoDataWithoutConnectBase ==
  \A k \in Idx :
    (Returned(k) /\ NoConnectBase(k)) =>
      LET network == AnalysisOf(k).icp_fit.network_analysis IN
      /\ network.dqe_distance_feet \in NoDataValues
      /\ network.network_category \in NoDataValues
      /\ network.build_cost_assessment \in NoDataValues

\* ------------------------------------------------------- the result sink
\* main() at the return of process_csv, for batches longer than the batch
\* specifications reach: n rows, each located, researched and scored, the
\* scores following one of a family of patterns that has zero scores, equal
\* scores and scores on both sides of every bucket limit
ScoreTable == <<0, 19, 20, 59, 60, 80>>
ConfidenceTable == <<50, 60, 70, 85, 90, 95>>

PatternSlot(a, b, i) == ((a * i + b) % Len(ScoreTable)) + 1

LeadRow(i) == [RowFull EXCEPT !.Name = "Lead " \o ToString(i)]

\* the scoring document of row i; with nullFirst the first row's document
\* has a null overall_score
LeadDoc(a, b, nullFirst, i) ==
  LET slot == PatternSlot(a, b, i) IN
  Analysis(IF nullFirst /\ i = 1 THEN None ELSE Num(ScoreTable[slot]),
           Num(ConfidenceTable[slot]), Num(80), Num(40), "medium")

LeadScript(doc) ==
  Script(None, GeoSuccess, Reply(Report, OneOne),
         Reply(<<JsonObject(doc)>>, OneOne))

LeadCard(i, doc) ==
  LET ey == _extract_ey_data(LeadRow(i)) IN
  BattleCard(i, ey, _extract_connectbase_data(LeadRow(i)),
             _geocode_address(ey["Address"], ey["City"], ey["State"],
                              ey["Zipcode"], GeoSuccess),
             doc, _extract_additional_tenants(LeadRow(i)))

InitStorage ==
  \E n \in 0..MaxCards, a \in 0..(Len(ScoreTable) - 1),
     b \in 0..(Len(ScoreTable) - 1), nullFirst \in BOOLEAN :
    LET card(i) == LeadCard(i, LeadDoc(a, b, nullFirst, i)) IN
    /\ rows = [i \in 1..n |-> LeadRow(i)]
    /\ svc = [i \in 1..n |-> LeadScript(LeadDoc(a, b, nullFirst, i))]
    /\ fut = [i \in 1..n |->
                [state |-> "finished", result |-> Some(<<i, card(i)>>),
                 exception |-> None]]
    /\ tpc = [i \in 1..n |-> "done"]
    /\ loc = [i \in 1..n |-> NoLocals]
    /\ issued = [i \in 1..n |-> <<"geocode", "research", "scoring">>]
    /\ max_workers = 1
    /\ mainpc = "done"
    /\ queue = <<>>
    /\ yielded = 1..n
    /\ results = [i \in 1..n |-> <<i, card(i)>>]
    /\ completed = n
    /\ battle_cards = [i \in 1..n |-> card(i)]
    /\ total_input_tokens = 2 * n
    /\ total_output_tokens = 2 * n
    /\ token_lock = 0
    /\ arrival = [i \in 1..n |-> i]
    /\ offered = [input |-> 2 * n, output |-> 2 * n]
    /\ storage = NotSaved

NextStorage == SaveToGcs \/ SaveToLocal

SpecStorage == InitStorage /\ [][NextStorage]_vars

\* the document save_to_gcs uploaded and the one save_to_local wrote
GcsWritten == storage.gcs # None /\ storage.gcs[1].written # None
GcsDocument == storage.gcs[1].written[1]
LocalWritten == storage.local # None /\ storage.local[1].written # None
LocalDocument == storage.local[1].written[1]

\* the positions of the cards with overall_score > 0
PositiveCards ==
  {i \in 1..Len(battle_cards) :
     ScoreOf(battle_cards[i]) # None /\ ScoreOf(battle_cards[i])[1] > 0}

CardScore(i) == ScoreOf(battle_cards[i])[1]

RECURSIVE SumScores(_)
SumScores(S) ==
  IF S = {} THEN 0
  ELSE LET i == CHOOSE j \in S : TRUE IN CardScore(i) + SumScores(S \ {i})

\* C17: in a written summary analyzed_records is the number of cards with
\* overall_score > 0, skipped_records is the rest, avg_score is the rounded
\* mean of those cards' scores, and each bucket counts those cards whose
\* score lies in it, so that the buckets add up to analyzed_records.
C17_SummaryCountsScored ==
  LET S == PositiveCards
      mean == IF S = {} THEN Zero
              ELSE Rounded(10 * SumScores(S), Cardinality(S))
      between(lo, hi) ==
        Cardinality({i \in S : lo <= CardScore(i) /\ CardScore(i) < hi})
  IN /\ GcsWritten =>
          LET summary == GcsDocument.summary
              buckets == summary.score_distribution
          IN /\ summary.total_records = Len(battle_cards)
             /\ summary.analyzed_records = Cardinality(S)
             /\ summary.skipped_records =
                  Len(battle_cards) - Cardinality(S)
             /\ summary.avg_score = mean
             /\ buckets["80-100 (Excellent)"] =
                  Cardinality({i \in S : CardScore(i) >= 80})
             /\ buckets["60-79 (Good)"] = between(60, 80)
             /\ buckets["40-59 (Fair)"] = between(40, 60)
             /\ buckets["20-39 (Poor)"] = between(20, 40)
             /\ buckets["0-19 (Disqualified)"] = between(1, 20)
             /\ buckets["80-100 (Excellent)"] + buckets["60-79 (Good)"]
                  + buckets["40-59 (Fair)"] + buckets["20-39 (Poor)"]
                  + buckets["0-19 (Disqualified)"] = summary.analyzed_records
     /\ LocalWritten =>
          /\ LocalDocument.summary.analyzed_records = Cardinality(S)
          /\ LocalDocument.summary.avg_score = mean

\* five cards, two of them with score 0, were summarised
C17_Witness ==
  /\ GcsWritten
  /\ Len(battle_cards) = 5
  /\ Cardinality(PositiveCards) = 3
  /\ Cardinality({i \in 1..5 : ScoreOf(battle_cards[i]) = Num(0)}) = 2
  /\ GcsDocument.summary.analyzed_records = 3
  /\ GcsDocument.summary.skipped_records = 2

\* the place of card i among the scored cards: after the cards with a
\* higher score and the earlier cards with the same score
Rank(i) ==
  1 + Cardinality({j \in PositiveCards :
                     \/ CardScore(j) > CardScore(i)
                     \/ CardScore(j) = CardScore(i) /\ j < i})

\* C18: top_prospects holds the entries of the scored cards in descending
\* order of score, cards of equal score in list order, cut after the first
\* twenty.
C18_TopTwentyStable ==
  GcsWritten =>
    LET top == GcsDocument.summary.top_prospects
        S == PositiveCards
    IN /\ Len(top) <= 20
       /\ Len(top) = IF Cardinality(S) < 20 THEN Cardinality(S) ELSE 20
       /\ \A r \in 1..Len(top) : top[r].score[1] > 0
       /\ \A r \in 1..(Len(top) - 1) : top[r].score[1] >= top[r + 1].score[1]
       /\ \A i \in S :
            Rank(i) <= 20 => top[Rank(i)] = TopEntry(battle_cards[i])

\* more than twenty scored cards, of different and of equal scores, were
\* summarised
C18_Witness ==
  /\ GcsWritten
  /\ Cardinality(PositiveCards) > 20
  /\ Len(GcsDocument.summary.top_prospects) = 20
  /\ \E i, j \in PositiveCards :
       /\ i < j /\ CardScore(i) = CardScore(j) /\ Rank(j) <= 20
  /\ \E i, j \in PositiveCards : CardScore(i) < CardScore(j)

\* ------------------------------------------------------------------- C19
\* the results of the saves main has made so far
SaveResults ==
  {storage[f][1] : f \in {f \in {"gcs", "local"} : storage[f] # None}}

\* C19: save_to_gcs and save_to_local never raise: each returns a boolean,
\* true exactly when it wrote its document; a list the summary cannot be
\* computed for (a card with a null overall_score) makes both return false
\* with nothing written; the document written holds the list as it is, and
\* no save changes the in-memory list of cards.
C19_SavesNeverRaise ==
  /\ [](/\ storage.pc # "raised"
        /\ \A r \in SaveResults :
             /\ r.raised = None
             /\ r.returned \in {Some(TRUE), Some(FALSE)}
             /\ r.returned = Some(TRUE) <=> r.written # None
             /\ r.written # None => r.written[1].battle_cards = battle_cards
             /\ (\E i \in 1..Len(battle_cards) :
                   ScoreOf(battle_cards[i]) = None)
                  => r.returned = Some(FALSE))
  /\ [][battle_cards' = battle_cards]_vars

\* the upload failed on a list whose summary can be computed: save_to_gcs
\* returned false and wrote nothing, and save_to_local, run next on the
\* same list, wrote its file and returned true
C19_Witness ==
  /\ storage.pc = "end"
  /\ Len(battle_cards) > 0
  /\ SummaryError(battle_cards) = None
  /\ storage.gcs[1].returned = Some(FALSE)
  /\ storage.gcs[1].written = None
  /\ storage.local[1].returned = Some(TRUE)
  /\ LocalWritten
  /\ LocalDocument.battle_cards = battle_cards

\* ------------------------------------------------------------------- C20
\* C20: when both saves wrote the same list, the local document has the
\* shape of the uploaded one: the same top-level keys summary and
\* battle_cards, the same battle_cards, and a summary with the same set of
\* fields.
C20_LocalSameShapeAsGcs ==
  (GcsWritten /\ LocalWritten) =>
    /\ DOMAIN LocalDocument = {"summary", "battle_cards"}
    /\ DOMAIN GcsDocument = {"summary", "battle_cards"}
    /\ LocalDocument.battle_cards = GcsDocument.battle_cards
    /\ DOMAIN LocalDocument.summary = DOMAIN GcsDocument.summary


\* ------------------------------------------------------------------- C21
\* lines 50-57 of the analyzer: _track_tokens raises when the response has
\* usage metadata with a null count
TrackRaises(reply) ==
  /\ "usage" \in DOMAIN reply
  /\ \/ Get(reply.usage, "prompt_token_count", Num(0)) = None
     \/ Get(reply.usage, "candidates_token_count", Num(0)) = None

\* analyzer lines 73-130 run by one thread alone, the two generation calls
\* answering as script says
analyze_prospect(script) ==
  LET research == script.research
      scoring == script.scoring
  IN
  IF "exc" \in DOMAIN research THEN ExceptClause("Exception", research.exc)
  ELSE IF TrackRaises(research) THEN ExceptClause("Exception", TypeErrorNone)
  ELSE IF "exc" \in DOMAIN scoring THEN ExceptClause("Exception", scoring.exc)
  ELSE IF TrackRaises(scoring) THEN ExceptClause("Exception", TypeErrorNone)
  ELSE IF scoring.text = None
    THEN ExceptClause("Exception",
                      "'NoneType' object has no attribute 'strip'")
  ELSE LET decoded == json_loads(ExtractJSON(scoring.text[1])) IN
    IF ~decoded.ok THEN ExceptClause("JSONDecodeError", decoded.exc)
    ELSE LET seen == InspectAnalysis(decoded.doc) IN
      IF ~seen.ok THEN ExceptClause("Exception", seen.exc)
      ELSE [caught |-> FALSE, analysis |-> seen.analysis]

\* processor lines 153-200 run by one thread alone on (idx, row); the card
\* of the row is what the task returns or, when the task raises, the card
\* the orchestrator makes for it (lines 228-245)
_process_single_row(idx, row, script) ==
  IF script.crash # None THEN SyntheticCard(idx, script.crash[1])
  ELSE LET ey_data == _extract_ey_data(row) IN
    BattleCard(idx, ey_data, _extract_connectbase_data(row),
               _geocode_address(ey_data["Address"], ey_data["City"],
                                ey_data["State"], ey_data["Zipcode"],
                                script.geo),
               analyze_prospect(script).analysis,
               _extract_additional_tenants(row))

\* batches of different rows answered in different ways
MaxReorderRows == 2
InitReorder ==
  InitWith(MaxReorderRows, {RowFull, RowBare},
           {OkScript, CrashScript, ShortScript})
SpecReorder == InitReorder /\ [][Next]_vars

\* card without the index of its row
Content(card) == [card EXCEPT !.metadata = Without(@, "csv_row_index")]

\* the cards are out: process_rows_parallel has returned
Emitted == mainpc = "done"

\* C21 as stated: a row with the same columns and the same answers gets the
\* same card at whatever position it stands.
C21_SameCardAnywhere ==
  Emitted =>
    \A j, k \in Idx :
      (rows[j] = rows[k] /\ svc[j] = svc[k])
        => battle_cards[j] = battle_cards[k]

\* C21: the card at position i is the card one thread alone computes from
\* row i and the answers to row i, whatever the other rows, the number of
\* workers and the order of completion are; two cards of equal rows with
\* equal answers differ in metadata.csv_row_index and in nothing else.
C21_CardDependsOnOwnRowOnly ==
  Emitted =>
    /\ Len(battle_cards) = N
    /\ \A i \in Idx :
         /\ battle_cards[i] = _process_single_row(i, rows[i], svc[i])
         /\ battle_cards[i].metadata.csv_row_index = i
    /\ \A j, k \in Idx :
         (rows[j] = rows[k] /\ svc[j] = svc[k])
           => Content(battle_cards[j]) = Content(battle_cards[k])

\* two different rows answered differently, the second collected first
C21_Witness ==
  /\ Emitted
  /\ N = 2
  /\ rows[1] # rows[2]
  /\ svc[1] = OkScript
  /\ svc[2] = ShortScript
  /\ arrival = <<2, 1>>
  /\ Content(battle_cards[1]) # Content(battle_cards[2])


\* ------------------------------------------------------------------- C22
\* rows holding any subset of six of the columns the extractor reads; the
\* tenants column holds "N/A", the empty string or two names
MaxExtractRows == 1
ExtractColumns ==
  {"Name", "Address", "Bandwitdh ( DIA or Broadband)", "API_EntityName",
   "DQE_Site_Distance", "API_Additional_Tenants"}

TenantTexts == {NA, <<>>, <<"A", ",", " ", "B">>}

ExtractRows ==
  {[c \in S |-> IF c = "API_Additional_Tenants" THEN t
                ELSE IF c = "API_EntityName" THEN "Acme Corp"
                ELSE IF c = "DQE_Site_Distance" THEN "N/A"
                ELSE "v"] :
     S \in SUBSET ExtractColumns, t \in TenantTexts}

InitExtract == InitWith(MaxExtractRows, ExtractRows, {OkScript})

\* the row task up to the end of the extraction (processor lines 159-162)
NextExtract ==
  \/ Submit
  \/ AllSubmitted
  \/ \E k \in Idx : Start(k)

SpecExtract == InitExtract /\ [][NextExtract]_vars

Extracted(k) == tpc[k] = "geocode"

\* C22: whatever subset of the columns a row holds, extraction does not
\* fail; the EY record has its 21 keys and the ConnectBase record its 16
\* keys; a field whose column is in the row has the column's value, a field
\* whose column is missing has "" (EY) or "N/A" (ConnectBase); a tenants
\* column that is missing or "N/A" gives the empty tenant list.
C22_ExtractionDefaults ==
  \A k \in Idx :
    /\ fut[k].exception = None
    /\ Extracted(k) =>
         LET row == rows[k]
             ey == loc[k].ey_data
             cb == loc[k].connectbase_data
         IN
         /\ DOMAIN ey = EYKeys /\ Cardinality(DOMAIN ey) = 21
         /\ DOMAIN cb = CBKeys /\ Cardinality(DOMAIN cb) = 16
         /\ \A f \in DOMAIN ey \ {"Bandwidth"} :
              ey[f] = IF f \in DOMAIN row THEN row[f] ELSE ""
         /\ ey["Bandwidth"] =
              IF "Bandwitdh ( DIA or Broadband)" \in DOMAIN row
              THEN row["Bandwitdh ( DIA or Broadband)"] ELSE ""
         /\ \A f \in DOMAIN cb :
              cb[f] = IF f \in DOMAIN row THEN row[f] ELSE "N/A"
         /\ ("API_Additional_Tenants" \notin DOMAIN row
               \/ row["API_Additional_Tenants"] = NA)
              => loc[k].additional_tenants = <<>>

\* a row with a name only: every other field took its default
C22_Witness ==
  \E k \in Idx :
    /\ Extracted(k)
    /\ DOMAIN rows[k] = {"Name"}
    /\ loc[k].ey_data["Name"] = "v"
    /\ loc[k].ey_data["Address"] = ""
    /\ loc[k].connectbase_data["API_EntityName"] = "N/A"
    /\ loc[k].additional_tenants = <<>>


\* ------------------------------------------------------------------- C23
\* the number of requests of one kind sent for row k
Requests(k, kind) ==
  Cardinality({i \in 1..Len(issued[k]) : issued[k][i] = kind})

TaskOver(k) == fut[k].state = "finished"

\* C23: no call is sent twice. At every moment a row has caused at most one
\* geocoding request, at most one research request and at most one scoring
\* request, in that order; a row whose task is over has caused exactly one
\* geocoding request, whether the geocoder answered with a place, with an
\* error status or with an exception, and whether the generation calls
\* returned, raised or returned text that cannot be decoded.
C23_NoCallRetried ==
  \A k \in Idx :
    /\ Requests(k, "geocode") <= 1
    /\ Requests(k, "research") <= 1
    /\ Requests(k, "scoring") <= 1
    /\ issued[k] \in {<<>>, <<"geocode">>, <<"geocode", "research">>,
                      <<"geocode", "research", "scoring">>}
    /\ TaskOver(k) => Requests(k, "geocode") = 1
    /\ (TaskOver(k) /\ "exc" \in DOMAIN svc[k].research)
         => issued[k] = <<"geocode", "research">>
    /\ (TaskOver(k) /\ "exc" \notin DOMAIN svc[k].research
                    /\ ~TrackRaises(svc[k].research))
         => issued[k] = <<"geocode", "research", "scoring">>

\* the geocoder answered 404, the scoring text was prose: the card holds the
\* fallback and each of the three calls was sent once
C23_Witness ==
  \E k \in Idx :
    /\ TaskOver(k)
    /\ svc[k].geo = Geo404
    /\ svc[k].scoring = Reply(<<Prose>>, OneOne)
    /\ IsFallback(AnalysisOf(k))
    /\ issued[k] = <<"geocode", "research", "scoring">>


\* ------------------------------------------------------------------- C24
\* fair scheduling: a step that can be taken is not put off for ever, so a
\* thread that can run runs and a call that was sent returns or raises
MaxFairRows == 2
FairScripts ==
  {Script(None, Geo500, Reply(Report, OneOne), ReplyNoUsage(GoodText)),
   NullPromptScript}
InitFair == InitWith(MaxFairRows, {RowBare}, FairScripts)
SpecFair == InitFair /\ [][Next]_vars /\ WF_vars(Next)

\* main is past its last statement
MainOver == storage.pc = "end"

InExternalCall(k) == tpc[k] \in {"geocode", "research", "scoring"}

\* C24: under fair scheduling main reaches its end, and it does so only
\* after every row task has ended and process_rows_parallel has returned;
\* a state in which no step is possible
\* is the end of main; the token lock is held by a task only between the
\* entry of the with block and its exit, never during an external call,
\* and the step in which an increment raises leaves the lock free.
C24_BatchTerminates ==
  /\ <>MainOver
  /\ [](MainOver => mainpc = "done" /\ \A k \in Idx : TaskOver(k))
  /\ [](MainOver \/ ENABLED Next)
  /\ [](\A k \in Idx :
          /\ token_lock = k => InCritical(k)
          /\ InExternalCall(k) => token_lock # k)
  /\ [][\A k \in Idx :
          (tpc[k] \in {"store_in", "store_out"} /\ tpc'[k] = "assemble")
            => token_lock = k /\ token_lock' = 0]_vars

\* an increment raised on a null count while another task waited for the
\* lock, and both tasks ended
C24_Witness ==
  \E j, k \in Idx :
    /\ j # k
    /\ TaskOver(j) /\ TaskOver(k)
    /\ TrackRaises(svc[k].research)
    /\ ~TrackRaises(svc[j].research)
    /\ arrival = <<k, j>>
    /\ mainpc = "done"
    /\ token_lock = 0


\* ------------------------------------------------------------------- C25
\* text is one JSON document, bare or wrapped in ```json ... ``` or
\* ``` ... ```, with optional whitespace around the document and the fences
IsWrappedDocument(text) ==
  LET t == StripText(text) IN
  \/ Len(t) = 1 /\ t[1].kind = "json"
  \/ /\ Len(t) >= 3
     /\ t[1].kind \in {"fence_json", "fence"}
     /\ t[Len(t)].kind = "fence"
     /\ LET inner == StripText(SubSeq(t, 2, Len(t) - 1)) IN
        Len(inner) = 1 /\ inner[1].kind = "json"

\* the document inside the wrapping
WrappedDocument(text) ==
  LET t == StripText(text) IN
  IF Len(t) = 1 THEN t[1] ELSE StripText(SubSeq(t, 2, Len(t) - 1))[1]

\* C25: when the scoring response is one JSON document, bare or wrapped in
\* a code fence, and the document has the fields analyze_prospect reads,
\* the analysis returned is that document, content unchanged.
C25_UnwrapKeepsDocument ==
  \A k \in Idx :
    (/\ Returned(k)
     /\ "text" \in DOMAIN svc[k].scoring
     /\ "text" \in DOMAIN svc[k].research
     /\ svc[k].research.text # None
     /\ svc[k].scoring.text # None
     /\ IsWrappedDocument(svc[k].scoring.text[1])
     /\ InspectAnalysis(WrappedDocument(svc[k].scoring.text[1])).ok)
      => AnalysisOf(k) = WrappedDocument(svc[k].scoring.text[1]).value


\* ------------------------------------------------------------------- C26
\* process_csv called a second time on the same generator (generator lines
\* 36-65): the rows are read anew and nothing of the analyzer is reset, so
\* the totals are those the first run left, 2 input and 2 output tokens for
\* each of its rows when both calls of a row report one token each way
MaxFirstRunRows == 1
MaxSecondRunRows == 2

InitSecondRun ==
  /\ \E n \in 0..MaxSecondRunRows :
       /\ rows \in [1..n -> {RowBare}]
       /\ svc \in [1..n -> {OkScript}]
       /\ fut = [k \in 1..n |-> NoFuture]
       /\ tpc = [k \in 1..n |-> "idle"]
       /\ loc = [k \in 1..n |-> NoLocals]
       /\ issued = [k \in 1..n |-> <<>>]
  /\ max_workers \in 1..MaxWorkers
  /\ mainpc = "submit"
  /\ queue = <<>>
  /\ yielded = {}
  /\ results = <<>>
  /\ completed = 0
  /\ battle_cards = <<>>
  /\ \E first \in 0..MaxFirstRunRows :
       /\ total_input_tokens = 2 * first
       /\ total_output_tokens = 2 * first
  /\ token_lock = 0
  /\ arrival = <<>>
  /\ offered = [input |-> 0, output |-> 0]
  /\ storage = NotSaved

SpecSecondRun == InitSecondRun /\ [][Next]_vars

\* C26: the token_usage of the summary written after a run counts the
\* tokens of the generation calls of that run and no others.
C26_TotalsOfThisRun ==
  GcsWritten =>
    /\ GcsDocument.summary.token_usage.input_tokens = offered.input
    /\ GcsDocument.summary.token_usage.output_tokens = offered.output
    /\ GcsDocument.summary.token_usage.total_tokens
         = offered.input + offered.output


\* ------------------------------------------------------------------- C27
\* the same answer without its usage metadata
WithoutUsage(reply) ==
  IF "usage" \in DOMAIN reply THEN Without(reply, "usage") ELSE reply

\* C27: the analysis returned for a row is the one returned for the same
\* research text and the same scoring text when the responses carry no
\* usage metadata: the counts, null or not, do not change it.
C27_AnalysisIgnoresUsage ==
  \A k \in Idx :
    Returned(k) =>
      AnalysisOf(k)
        = analyze_prospect([svc[k] EXCEPT !.research = WithoutUsage(@),
                                          !.scoring = WithoutUsage(@)]).analysis


\* ------------------------------------------------------------------- C28
\* the geocode result of row i as the geocoder gave it
GeocodeOf(i) ==
  LET ey == _extract_ey_data(rows[i]) IN
  _geocode_address(ey["Address"], ey["City"], ey["State"], ey["Zipcode"],
                   svc[i].geo)

\* the task of row i raised
TaskRaised(i) == fut[i].state = "finished" /\ fut[i].exception # None

\* C28: in the list returned, the card of a row whose task returned carries
\* the row's EY data, ConnectBase data, tenants and geocode result as they
\* were obtained and has no error in its metadata, also when its analysis
\* is the fallback; the card of a row whose task raised, and no other, has
\* empty EY and ConnectBase data, no tenants, the geocode status "error"
\* and the error in its metadata.
C28_FallbackKeepsRowData ==
  Emitted =>
    \A i \in Idx :
      LET card == battle_cards[i] IN
      /\ ~TaskRaised(i) =>
           /\ card.ey_file_data = _extract_ey_data(rows[i])
           /\ card.connectbase_data = _extract_connectbase_data(rows[i])
           /\ card.additional_tenants = _extract_additional_tenants(rows[i])
           /\ card.geocode_data = GeocodeOf(i)
           /\ DOMAIN card.metadata = {"analysis_date", "csv_row_index"}
      /\ TaskRaised(i) =>
           /\ DOMAIN card.ey_file_data = {}
           /\ DOMAIN card.connectbase_data = {}
           /\ card.additional_tenants = <<>>
           /\ card.geocode_data.geocode_status = "error"
           /\ card.metadata.error = fut[i].exception[1]
           /\ IsFallback(card.llm_analysis)
      /\ TaskRaised(i) <=> svc[i].crash # None

\* the analysis of row 1 fell back and its card has the row's data and the
\* geocoder's status; the task of row 2 raised and its card is empty
C28_Witness ==
  /\ Emitted
  /\ N = 2
  /\ ~TaskRaised(1)
  /\ IsFallback(battle_cards[1].llm_analysis)
  /\ battle_cards[1].ey_file_data["Name"] = "Acme"
  /\ battle_cards[1].connectbase_data["API_EntityName"] = "Acme Corp"
  /\ battle_cards[1].additional_tenants # <<>>
  /\ battle_cards[1].geocode_data.geocode_status = "error_500"
  /\ TaskRaised(2)
  /\ battle_cards[2].geocode_data.geocode_status = "error"


\* ------------------------------------------------------------------- C29
\* every answer of the geocoder, and tasks that raise
InitCards ==
  InitWith(MaxGeocoderRows, {RowFull}, GeocoderScripts \cup {CrashScript})

SpecCards == InitCards /\ [][Next]_vars

GeocodeKeys ==
  {"latitude", "longitude", "geocode_quality", "formatted_address",
   "geocode_status"}

\* error_<code> for an HTTP status code
IsErrorCode(status) == \E c \in 100..599 : status = "error_" \o ToString(c)

WellFormedGeocode(g) ==
  /\ GeocodeKeys \subseteq DOMAIN g
  /\ \/ g.geocode_status \in {"success", "no_results", "error"}
     \/ IsErrorCode(g.geocode_status)
  /\ g.geocode_status # "success"
       => /\ g.latitude = None
          /\ g.longitude = None
          /\ g.geocode_quality = None

\* C29: the geocode_data of every card, in the results collected and in the
\* list returned, has the five keys, a status among success, no_results,
\* error and error_<code>, and null latitude, longitude and quality unless
\* the status is success.
C29_GeocodeRecordShape ==
  /\ \A i \in 1..Len(results) : WellFormedGeocode(results[i][2].geocode_data)
  /\ \A i \in 1..Len(battle_cards) :
       WellFormedGeocode(battle_cards[i].geocode_data)

\* the card made for a task that raised: status "error" like the record the
\* geocoder returns for an exception, but without its geocode_error
C29_Witness ==
  /\ Emitted
  /\ N = 1
  /\ TaskRaised(1)
  /\ battle_cards[1].geocode_data.geocode_status = "error"
  /\ "geocode_error" \notin DOMAIN battle_cards[1].geocode_data
  /\ battle_cards[1].geocode_data.latitude = None


\* ------------------------------------------------------------------- C30
\* C30: for the list process_rows_parallel returned, _calculate_summary
\* completes; every card is counted in total_records, the cards without a
\* positive score (the cards made for failed tasks among them) in
\* skipped_records and none of them is in top_prospects; avg_score and
\* avg_confidence are 0 when no card has a positive score.
C30_SummaryCompletes ==
  Emitted =>
    LET s == _calculate_summary(battle_cards, total_input_tokens,
                                total_output_tokens)
    IN IF ~s.ok THEN FALSE
       ELSE
         /\ s.summary.total_records = Len(battle_cards)
         /\ s.summary.skipped_records
              = Len(battle_cards) - Cardinality(PositiveCards)
         /\ Len(s.summary.top_prospects) <= Cardinality(PositiveCards)
         /\ \A i \in 1..Len(s.summary.top_prospects) :
              s.summary.top_prospects[i].score[1] > 0
         /\ PositiveCards = {}
              => /\ s.summary.avg_score = Zero
                 /\ s.summary.avg_confidence = Zero

====
